---- MODULE Spec2Model ----
(***************************************************************************)
(* A model of the sha1hulud_scanner package: the Scanner orchestrator      *)
(* (scan, scan_file, scan_directory, discover_lock_files, match_packages)  *)
(* over a vulnerability index and a filesystem tree.                       *)
(*                                                                         *)
(* Paths are sequences of path segments (pathlib's Path.parts without the  *)
(* anchor); every path handed to an operation is already in resolved form. *)
(* A warning string f"<message>: <path>" is the record [msg, path].        *)
(* scan_date (a timestamp) is left out of ScanSummary.                     *)
(*                                                                         *)
(* The database loader (Scanner.__init__, DatabaseParser) and the three    *)
(* lock-file parsers are modelled on the text they split: a string there   *)
(* is a sequence of one-character strings, a database file the sequence of *)
(* its lines or rows, a lock file the mapping or the lines read from it.   *)
(*                                                                         *)
(* Further specifications: SpecRegister (register_parser on this and on    *)
(* other Scanner instances, which share the class attribute                *)
(* LOCK_FILE_NAMES), SpecSummary (the methods of ScanSummary and           *)
(* JsonOutput.format), SpecCli (main and its exit codes) and SpecYarn      *)
(* (yarn.lock entries whose version line is up to MaxGap lines away).      *)
(***************************************************************************)
EXTENDS Integers, Sequences, FiniteSets, TLC

\* ------------------------------------------------------------------ bounds
\* entries that Path.rglob("*") yields under the scanned root
MaxEntries == 4
\* entries of the vulnerability database
MaxDb == 2
\* installed-package records handed to match_packages
MaxPkgs == 3
\* lines of a database file, items of a mapping of a lock file
MaxLines == 2
\* levels of nested "dependencies" of a package-lock.json
MaxDepth == 2
\* lines of a yarn.lock
MaxYarnLines == 4
\* Scanner instances alive at once
MaxScanners == 2
\* register_parser calls
MaxRegistered == 2
\* results added to one ScanSummary
MaxResults == 2
\* warnings added to one ScanSummary
MaxWarnings == 2
\* increment_files_scanned calls on one ScanSummary
MaxFilesScanned == 2
\* lines between an entry line of a yarn.lock and its version line
MaxGap == 11

VARIABLES
    _vulnerable_set,      \* Scanner._vulnerable_set: set of <<name, version>>
    _vulnerable_by_name,  \* Scanner._vulnerable_by_name: name -> list of versions
    _parsers,             \* Scanner._parsers: list of parsers
    LOCK_FILE_NAMES,      \* Scanner.LOCK_FILE_NAMES: filename -> LockFileType
    root,                 \* parts of the resolved directory that holds the tree
    tree,                 \* what rglob("*") yields under root, in its order
    packages,             \* the argument of a direct match_packages call
    pc,                   \* "idle" before the call, "done" after it
    call,                 \* the operation called and its path argument
    ret,                  \* what the call produced
    doc,                  \* the document a loader or parser is run on
    siblings,             \* the _parsers lists of the other Scanner instances
    scan_summary          \* a ScanSummary the caller builds and renders

vars == << _vulnerable_set, _vulnerable_by_name, _parsers, LOCK_FILE_NAMES,
           root, tree, packages, pc, call, ret, doc,
           siblings, scan_summary >>

\* ------------------------------------------------------------ small helpers
Range(s) == { s[i] : i \in DOMAIN s }

RECURSIVE Flatten(_)
Flatten(ss) == IF ss = << >> THEN << >> ELSE Head(ss) \o Flatten(Tail(ss))

RECURSIVE SumSeq(_)
SumSeq(ns) == IF ns = << >> THEN 0 ELSE Head(ns) + SumSeq(Tail(ns))

IsPrefix(p, q) == Len(p) <= Len(q) /\ SubSeq(q, 1, Len(p)) = p

\* ------------------------------------------------------------ the database
\* VulnerablePackage (name, version); its key is the pair.
VulnerablePackage(n, v) == [name |-> n, version |-> v]

key(pkg) == << pkg.name, pkg.version >>

\* load_all's aggregation of one parsed entry into (set, by_name).
AddEntry(idx, pkg) ==
    LET by == idx.by_name
        by1 == IF pkg.name \in DOMAIN by THEN by
               ELSE [n \in DOMAIN by \cup {pkg.name} |->
                        IF n = pkg.name THEN << >> ELSE by[n]]
        by2 == IF pkg.version \in Range(by1[pkg.name]) THEN by1
               ELSE [by1 EXCEPT ![pkg.name] = Append(@, pkg.version)]
    IN  [set |-> idx.set \cup {key(pkg)}, by_name |-> by2]

RECURSIVE AddEntries(_, _)
AddEntries(idx, pkgs) ==
    IF pkgs = << >> THEN idx
    ELSE AddEntries(AddEntry(idx, Head(pkgs)), Tail(pkgs))

load_all_csv_first(md_packages, csv_packages) ==
    AddEntries(AddEntries([set |-> {}, by_name |-> << >>], csv_packages),
               md_packages)

\* load_all: packages.md entries first, then wiz-packages.csv entries.
load_all(md_packages, csv_packages) ==
    AddEntries(AddEntries([set |-> {}, by_name |-> << >>], md_packages),
               csv_packages)

\* ------------------------------------------------------------- the records
LockFileType == [NPM |-> "package-lock.json", YARN |-> "yarn.lock",
                 PNPM |-> "pnpm-lock.yaml"]

InstalledPackage(n, v, file_path, file_type) ==
    [name |-> n, version |-> v, file_path |-> file_path, file_type |-> file_type]

ScanResult(package_name, installed_version, vulnerable_versions, file_path, file_type) ==
    [package_name |-> package_name, installed_version |-> installed_version,
     vulnerable_versions |-> vulnerable_versions,
     file_path |-> file_path, file_type |-> file_type]

ScanSummary(target_path) ==
    [target_path |-> target_path, files_scanned |-> 0,
     vulnerabilities |-> << >>, warnings |-> << >>]

add_result(summary, result) ==
    [summary EXCEPT !.vulnerabilities = Append(@, result)]

\* A variant that keeps a repeated warning once.
add_warning_once(summary, warning) ==
    IF \E i \in DOMAIN summary.warnings : summary.warnings[i] = warning
    THEN summary
    ELSE [summary EXCEPT !.warnings = Append(@, warning)]

add_warning(summary, warning) ==
    [summary EXCEPT !.warnings = Append(@, warning)]

increment_files_scanned(summary) ==
    [summary EXCEPT !.files_scanned = @ + 1]

Warning(msg, path) == [msg |-> msg, path |-> path]

\* ----------------------------------------------------------- the filesystem
\* An entry of the tree: its path relative to root, its type, whether stat()
\* on it fails with PermissionError (its directory lacks search permission),
\* and, for a file, the class of its content:
\*   "valid"          a well-formed lock file with vulnerable packages,
\*   "clean"          a well-formed lock file without any,
\*   "invalid_syntax" text that is no JSON / YAML document / has no yarn entry,
\*   "undecodable"    bytes that are not UTF-8 (reading raises UnicodeDecodeError),
\*   "other"          any content of a file that is no lock file,
\*   "none"           a directory: open() raises IsADirectoryError.
Entry(parts, type, denied, content) ==
    [parts |-> parts, type |-> type, denied |-> denied, content |-> content]

LockContents == {"valid", "clean", "invalid_syntax", "undecodable"}

TopEntries ==
    { Entry(<<"package-lock.json">>, "file", FALSE, c) : c \in LockContents }
    \cup { Entry(<<"package-lock.json">>, "dir", FALSE, "none"),
           Entry(<<"unknown.txt">>, "file", FALSE, "other"),
           Entry(<<"src">>, "dir", FALSE, "none"),
           Entry(<<"node_modules">>, "dir", FALSE, "none") }

NestedEntries ==
    { Entry(<<"src", "yarn.lock">>, "file", d, c) :
        d \in BOOLEAN, c \in LockContents }
    \cup { Entry(<<"node_modules", "pnpm-lock.yaml">>, "file", d, c) :
        d \in BOOLEAN, c \in LockContents }

Roots == { <<"proj">>, <<"node_modules", "pkg">> }

AbsParts(rel) == root \o rel

name(path) == path[Len(path)]

EntriesAt(path) == { i \in DOMAIN tree : AbsParts(tree[i].parts) = path }

EntryAt(path) == tree[CHOOSE i \in EntriesAt(path) : TRUE]

\* Path.exists / Path.is_file / Path.is_dir of a resolved path.
exists(path) == path = root \/ EntriesAt(path) # {}

is_file(path) == EntriesAt(path) # {} /\ EntryAt(path).type = "file"

is_dir(path) == path = root \/ (EntriesAt(path) # {} /\ EntryAt(path).type = "dir")

\* dir_path.rglob("*"): the entries strictly below dir_path, in listing order.
rglob(dir_path) ==
    SelectSeq(tree, LAMBDA e :
        /\ Len(AbsParts(e.parts)) > Len(dir_path)
        /\ IsPrefix(dir_path, AbsParts(e.parts)))

\* The paths a caller passes directly: the root, every entry that can be
\* stat-ed, and a path that does not exist.
MissingPath == AbsParts(<<"nonexistent">>)

Targets ==
    {root, MissingPath}
    \cup { AbsParts(tree[i].parts) : i \in { j \in DOMAIN tree : ~tree[j].denied } }

\* ------------------------------------------------------ the lock-file parsers
\* A parser is its filename and file_type properties.
NpmParser == [filename |-> "package-lock.json", file_type |-> "NPM"]
YarnParser == [filename |-> "yarn.lock", file_type |-> "YARN"]
PnpmParser == [filename |-> "pnpm-lock.yaml", file_type |-> "PNPM"]

NoParser == [filename |-> "", file_type |-> "None"]

can_parse(parser, file_path) == name(file_path) = parser.filename

\* The records of a well-formed lock file.  "valid": an exact match, a
\* name-only match and an unrelated package (under the database fixture
\* below); "clean": the unrelated package alone.
LockedPackages(content, file_path, file_type) ==
    IF content = "valid"
    THEN << InstalledPackage("vuln-pkg", "1.0.0", file_path, file_type),
            InstalledPackage("vuln-pkg", "2.0.0", file_path, file_type),
            InstalledPackage("safe-pkg", "2.0.0", file_path, file_type) >>
    ELSE << InstalledPackage("safe-pkg", "2.0.0", file_path, file_type) >>

Unreadable(content) == content \in {"undecodable", "none"}

\* What parse() does: it raises, or returns records, and may log a warning.
Raised(logged) == [raised |-> TRUE, packages |-> << >>, logged |-> logged]

Parsed(pkgs, logged) == [raised |-> FALSE, packages |-> pkgs, logged |-> logged]

\* NpmParser.parse: json.JSONDecodeError is caught and logged, an empty list
\* is returned; any other exception of open / read leaves parse().
NpmParser_parse(file_path) ==
    IF ~exists(file_path) THEN Raised(<< >>)
    ELSE LET content == EntryAt(file_path).content IN
         IF Unreadable(content) THEN Raised(<< >>)
         ELSE IF content = "invalid_syntax"
              THEN Parsed(<< >>, << Warning("Failed to parse", file_path) >>)
         ELSE Parsed(LockedPackages(content, file_path, "NPM"), << >>)

\* PnpmParser.parse: yaml.YAMLError is caught and logged in the same way.
PnpmParser_parse(file_path) ==
    IF ~exists(file_path) THEN Raised(<< >>)
    ELSE LET content == EntryAt(file_path).content IN
         IF Unreadable(content) THEN Raised(<< >>)
         ELSE IF content = "invalid_syntax"
              THEN Parsed(<< >>, << Warning("Failed to parse", file_path) >>)
         ELSE Parsed(LockedPackages(content, file_path, "PNPM"), << >>)

\* YarnParser.parse: a line scan; text without entry headers gives no record
\* and nothing is logged.
YarnParser_parse(file_path) ==
    IF ~exists(file_path) THEN Raised(<< >>)
    ELSE LET content == EntryAt(file_path).content IN
         IF Unreadable(content) THEN Raised(<< >>)
         ELSE IF content = "invalid_syntax" THEN Parsed(<< >>, << >>)
         ELSE Parsed(LockedPackages(content, file_path, "YARN"), << >>)

parse(parser, file_path) ==
    IF parser.file_type = "NPM" THEN NpmParser_parse(file_path)
    ELSE IF parser.file_type = "YARN" THEN YarnParser_parse(file_path)
    ELSE PnpmParser_parse(file_path)

\* ---------------------------------------------------------------- the scanner
RECURSIVE FirstParser(_, _, _)
FirstParser(ps, i, file_path) ==
    IF i > Len(ps) THEN NoParser
    ELSE IF can_parse(ps[i], file_path) THEN ps[i]
    ELSE FirstParser(ps, i + 1, file_path)

_get_parser_for_file(file_path) == FirstParser(_parsers, 1, file_path)

\* A variant that reports the matched version alone.
VulnerableVersions_matched_only(pkg) == << pkg.version >>

\* self._vulnerable_by_name.get(pkg.name, [pkg.version])
VulnerableVersions(pkg) ==
    IF pkg.name \in DOMAIN _vulnerable_by_name
    THEN _vulnerable_by_name[pkg.name]
    ELSE << pkg.version >>

RECURSIVE MatchFrom(_, _, _)
MatchFrom(pkgs, i, results) ==
    IF i > Len(pkgs) THEN results
    ELSE LET pkg == pkgs[i] IN
         IF key(pkg) \in _vulnerable_set
         THEN MatchFrom(pkgs, i + 1,
                  Append(results,
                         ScanResult(pkg.name, pkg.version, VulnerableVersions(pkg),
                                    pkg.file_path, pkg.file_type)))
         ELSE MatchFrom(pkgs, i + 1, results)

\* A variant that reports every (name, version) pair once.
RECURSIVE MatchFromDedup(_, _, _)
MatchFromDedup(pkgs, i, results) ==
    IF i > Len(pkgs) THEN results
    ELSE LET pkg == pkgs[i]
             seen == \E j \in DOMAIN results :
                        /\ results[j].package_name = pkg.name
                        /\ results[j].installed_version = pkg.version
         IN  IF key(pkg) \in _vulnerable_set /\ ~seen
             THEN MatchFromDedup(pkgs, i + 1,
                      Append(results,
                             ScanResult(pkg.name, pkg.version, VulnerableVersions(pkg),
                                        pkg.file_path, pkg.file_type)))
             ELSE MatchFromDedup(pkgs, i + 1, results)

match_packages_dedup(pkgs) == MatchFromDedup(pkgs, 1, << >>)

match_packages(pkgs) == MatchFrom(pkgs, 1, << >>)

\* What an operation hands back: "returned" with its value or "raised"; the
\* warnings it sent to the logger; the files parse() was invoked on.
Returned(summary, logged, parsed) ==
    [outcome |-> "returned", summary |-> summary, logged |-> logged,
     parsed |-> parsed]

Propagated(summary, logged, parsed) ==
    [outcome |-> "raised", summary |-> summary, logged |-> logged,
     parsed |-> parsed]

RECURSIVE AddResults(_, _)
AddResults(summary, results) ==
    IF results = << >> THEN summary
    ELSE AddResults(add_result(summary, Head(results)), Tail(results))

RECURSIVE AddWarnings(_, _)
AddWarnings(summary, warnings) ==
    IF warnings = << >> THEN summary
    ELSE AddWarnings(add_warning(summary, Head(warnings)), Tail(warnings))

\* A variant of the try statement without its except clause.
ParseAndMatch_uncaught(summary, parser, file_path) ==
    LET r == parse(parser, file_path) IN
    IF r.raised
    THEN Propagated(summary, r.logged, << file_path >>)
    ELSE Returned(AddResults(increment_files_scanned(summary),
                             match_packages(r.packages)),
                  r.logged, << file_path >>)

\* A variant that counts the file before parse() is called.
ParseAndMatch_counting_first(summary, parser, file_path) ==
    LET r == parse(parser, file_path)
        counted == increment_files_scanned(summary)
    IN  IF r.raised
        THEN Returned(add_warning(counted, Warning("Failed to parse", file_path)),
                      r.logged, << file_path >>)
        ELSE Returned(AddResults(counted, match_packages(r.packages)),
                      r.logged, << file_path >>)

\* scan_file from its try statement on: parse(), the count, the matching.
ParseAndMatch(summary, parser, file_path) ==
    LET r == parse(parser, file_path) IN
    IF r.raised
    THEN Returned(add_warning(summary, Warning("Failed to parse", file_path)),
                  r.logged, << file_path >>)
    ELSE Returned(AddResults(increment_files_scanned(summary),
                             match_packages(r.packages)),
                  r.logged, << file_path >>)

\* A variant that does not test is_file().
scan_file_any_type(file_path) ==
    LET summary == ScanSummary(file_path) IN
    IF ~exists(file_path)
    THEN Returned(add_warning(summary, Warning("File not found", file_path)),
                  << >>, << >>)
    ELSE LET parser == _get_parser_for_file(file_path) IN
         IF parser = NoParser
         THEN Returned(add_warning(summary,
                                   Warning("No parser available for", <<name(file_path)>>)),
                       << >>, << >>)
         ELSE ParseAndMatch(summary, parser, file_path)

scan_file(file_path) ==
    LET summary == ScanSummary(file_path) IN
    IF ~exists(file_path)
    THEN Returned(add_warning(summary, Warning("File not found", file_path)),
                  << >>, << >>)
    ELSE IF ~is_file(file_path)
    THEN Returned(add_warning(summary, Warning("Path is not a file", file_path)),
                  << >>, << >>)
    ELSE LET parser == _get_parser_for_file(file_path) IN
         IF parser = NoParser
         THEN Returned(add_warning(summary,
                                   Warning("No parser available for", <<name(file_path)>>)),
                       << >>, << >>)
         ELSE ParseAndMatch(summary, parser, file_path)

\* A variant that tests the segments below dir_path only.
RECURSIVE DiscoverFrom_below_root(_, _, _)
DiscoverFrom_below_root(items, i, lock_files) ==
    IF i > Len(items) THEN [lock_files |-> lock_files, logged |-> << >>]
    ELSE LET item == items[i]
             path == AbsParts(item.parts)
         IN  IF item.denied
             THEN [lock_files |-> lock_files,
                   logged |-> << Warning("Permission denied accessing", path) >>]
             ELSE IF /\ item.type = "file"
                     /\ name(path) \in DOMAIN LOCK_FILE_NAMES
                     /\ "node_modules" \notin Range(item.parts)
             THEN DiscoverFrom_below_root(items, i + 1, Append(lock_files, path))
             ELSE DiscoverFrom_below_root(items, i + 1, lock_files)

\* discover_lock_files: the try statement encloses the whole for loop, so a
\* PermissionError of item.is_file() ends the loop.
RECURSIVE DiscoverFrom(_, _, _)
DiscoverFrom(items, i, lock_files) ==
    IF i > Len(items) THEN [lock_files |-> lock_files, logged |-> << >>]
    ELSE LET item == items[i]
             path == AbsParts(item.parts)
         IN  IF item.denied
             THEN [lock_files |-> lock_files,
                   logged |-> << Warning("Permission denied accessing", path) >>]
             ELSE IF /\ item.type = "file"
                     /\ name(path) \in DOMAIN LOCK_FILE_NAMES
                     /\ "node_modules" \notin Range(path)
             THEN DiscoverFrom(items, i + 1, Append(lock_files, path))
             ELSE DiscoverFrom(items, i + 1, lock_files)

discover_lock_files(dir_path) == DiscoverFrom(rglob(dir_path), 1, << >>)

\* A variant of the loop that ends at the first file that gave a warning.
RECURSIVE ScanEach_until_warning(_, _, _)
ScanEach_until_warning(lock_files, i, acc) ==
    IF i > Len(lock_files) THEN acc
    ELSE LET file == scan_file(lock_files[i])
             merged == AddWarnings(
                           AddResults([acc.summary EXCEPT !.files_scanned =
                                           @ + file.summary.files_scanned],
                                      file.summary.vulnerabilities),
                           file.summary.warnings)
             next == Returned(merged, acc.logged \o file.logged,
                              acc.parsed \o file.parsed)
         IN  IF file.summary.warnings # << >> THEN next
             ELSE ScanEach_until_warning(lock_files, i + 1, next)

\* The loop of scan_directory over lock_files[i..], merging into acc.
RECURSIVE ScanEach(_, _, _)
ScanEach(lock_files, i, acc) ==
    IF i > Len(lock_files) THEN acc
    ELSE LET file == scan_file(lock_files[i])
             merged == AddWarnings(
                           AddResults([acc.summary EXCEPT !.files_scanned =
                                           @ + file.summary.files_scanned],
                                      file.summary.vulnerabilities),
                           file.summary.warnings)
         IN  IF file.outcome = "raised"
             THEN Propagated(acc.summary, acc.logged \o file.logged,
                             acc.parsed \o file.parsed)
             ELSE ScanEach(lock_files, i + 1,
                           Returned(merged, acc.logged \o file.logged,
                                    acc.parsed \o file.parsed))

scan_directory(dir_path) ==
    LET summary == ScanSummary(dir_path) IN
    IF ~exists(dir_path)
    THEN Returned(add_warning(summary, Warning("Directory not found", dir_path)),
                  << >>, << >>)
    ELSE IF ~is_dir(dir_path)
    THEN Returned(add_warning(summary, Warning("Path is not a directory", dir_path)),
                  << >>, << >>)
    ELSE LET found == discover_lock_files(dir_path) IN
         IF found.lock_files = << >>
         THEN Returned(summary, found.logged, << >>)
         ELSE ScanEach(found.lock_files, 1, Returned(summary, found.logged, << >>))

\* A variant whose last branch raises FileNotFoundError.
scan_raising(path) ==
    IF is_file(path) THEN scan_file(path)
    ELSE IF is_dir(path) THEN scan_directory(path)
    ELSE Propagated(ScanSummary(path), << >>, << >>)

scan(path) ==
    IF is_file(path) THEN scan_file(path)
    ELSE IF is_dir(path) THEN scan_directory(path)
    ELSE Returned(add_warning(ScanSummary(path), Warning("Path not found", path)),
                  << >>, << >>)

\* --------------------------------------------------------- the state machine
BuiltinParsers == << NpmParser, YarnParser, PnpmParser >>

BuiltinLockFileNames ==
    [f \in {"package-lock.json", "yarn.lock", "pnpm-lock.yaml"} |->
        IF f = "package-lock.json" THEN "NPM"
        ELSE IF f = "yarn.lock" THEN "YARN" ELSE "PNPM"]

\* The database of the scans below: one package with two vulnerable versions.
DbFixture ==
    << VulnerablePackage("vuln-pkg", "1.0.0"), VulnerablePackage("vuln-pkg", "1.1.0") >>

NoCall == [op |-> "none", path |-> << >>]

NoRet == [outcome |-> "none"]

NoDoc == [kind |-> "none"]

NoSummary == [kind |-> "none"]

\* Scanner.__init__ over the database fixture, before any file exists.
Init ==
    /\ LET idx == load_all(DbFixture, << >>) IN
          /\ _vulnerable_set = idx.set
          /\ _vulnerable_by_name = idx.by_name
    /\ _parsers = BuiltinParsers
    /\ LOCK_FILE_NAMES = BuiltinLockFileNames
    /\ root \in Roots
    /\ tree = << >>
    /\ packages = << >>
    /\ pc = "idle"
    /\ call = NoCall
    /\ ret = NoRet
    /\ siblings = << >>
    /\ scan_summary = NoSummary
    /\ doc = NoDoc

\* The environment puts one more entry into the tree.  rglob lists the
\* children of the root before those of its subdirectories, and a nested
\* entry needs its directory; stat() can only be denied below a subdirectory.
CreateEntry(e) ==
    /\ pc = "idle"
    /\ Len(tree) < MaxEntries
    /\ \A i \in DOMAIN tree : tree[i].parts # e.parts
    /\ IF Len(e.parts) = 1
       THEN \A i \in DOMAIN tree : Len(tree[i].parts) = 1
       ELSE \E i \in DOMAIN tree :
               /\ tree[i].parts = << e.parts[1] >>
               /\ tree[i].type = "dir"
    /\ tree' = Append(tree, e)
    /\ UNCHANGED << _vulnerable_set, _vulnerable_by_name, _parsers,
                    LOCK_FILE_NAMES, root, packages, pc, call, ret, doc,
                    siblings, scan_summary >>

Invoke(op, path, result) ==
    /\ pc = "idle"
    /\ pc' = "done"
    /\ call' = [op |-> op, path |-> path]
    /\ ret' = result
    /\ UNCHANGED << _vulnerable_set, _vulnerable_by_name, _parsers,
                    LOCK_FILE_NAMES, root, tree, packages, doc, siblings,
                    scan_summary >>

Scan(path) == Invoke("scan", path, scan(path))

ScanFile(path) == Invoke("scan_file", path, scan_file(path))

ScanDirectory(path) == Invoke("scan_directory", path, scan_directory(path))

DiscoverLockFiles(path) ==
    /\ is_dir(path)
    /\ Invoke("discover_lock_files", path,
              [outcome |-> "returned"] @@ discover_lock_files(path))

Next ==
    \/ \E e \in TopEntries \cup NestedEntries : CreateEntry(e)
    \/ \E path \in Targets : Scan(path)
    \/ \E path \in Targets : ScanFile(path)
    \/ \E path \in Targets : ScanDirectory(path)
    \/ \E path \in Targets : DiscoverLockFiles(path)

Spec == Init /\ [][Next]_vars

\* ------------------------------------------------- match_packages on its own
Names == {"vuln-pkg", "safe-pkg"}

Versions == {"1.0.0", "2.0.0"}

SeqsUpTo(S, n) == UNION { [1..k -> S] : k \in 0..n }

LockPath == <<"proj", "package-lock.json">>

\* A scanner over any small database, and any small list of parsed records.
InitMatch ==
    /\ \E db \in SeqsUpTo({ VulnerablePackage(n, v) : n \in Names, v \in Versions }, MaxDb) :
          LET idx == load_all(db, << >>) IN
             /\ _vulnerable_set = idx.set
             /\ _vulnerable_by_name = idx.by_name
    /\ _parsers = BuiltinParsers
    /\ LOCK_FILE_NAMES = BuiltinLockFileNames
    /\ root = <<"proj">>
    /\ tree = << >>
    /\ packages \in SeqsUpTo({ InstalledPackage(n, v, LockPath, "NPM") :
                                  n \in Names, v \in Versions }, MaxPkgs)
    /\ pc = "idle"
    /\ call = NoCall
    /\ ret = NoRet
    /\ siblings = << >>
    /\ scan_summary = NoSummary
    /\ doc = NoDoc

MatchPackages ==
    /\ pc = "idle"
    /\ pc' = "done"
    /\ call' = [op |-> "match_packages", path |-> << >>]
    /\ ret' = [outcome |-> "returned", results |-> match_packages(packages)]
    /\ UNCHANGED << _vulnerable_set, _vulnerable_by_name, _parsers,
                    LOCK_FILE_NAMES, root, tree, packages, doc, siblings,
                    scan_summary >>

NextMatch == MatchPackages

SpecMatch == InitMatch /\ [][NextMatch]_vars

\* ------------------------------------------------------------------ strings
\* The text the loaders and parsers split is a sequence of one-character
\* strings; indexes returned by find / rfind are Python's (0-based, -1 when
\* the character does not occur).
Whitespace == {" ", "\t"}

RECURSIVE lstrip(_)
lstrip(s) == IF s # << >> /\ Head(s) \in Whitespace THEN lstrip(Tail(s)) ELSE s

RECURSIVE rstrip(_)
rstrip(s) ==
    IF s # << >> /\ s[Len(s)] \in Whitespace
    THEN rstrip(SubSeq(s, 1, Len(s) - 1)) ELSE s

strip(s) == lstrip(rstrip(s))

\* s[a:b]
slice(s, a, b) == SubSeq(s, a + 1, b)

startswith(s, p) == IsPrefix(p, s)

endswith(s, p) == Len(p) <= Len(s) /\ SubSeq(s, Len(s) - Len(p) + 1, Len(s)) = p

find(s, c, start) ==
    LET hits == { i \in (start + 1)..Len(s) : s[i] = c }
    IN  IF hits = {} THEN -1
        ELSE (CHOOSE i \in hits : \A j \in hits : i <= j) - 1

rfind(s, c) ==
    LET hits == { i \in 1..Len(s) : s[i] = c }
    IN  IF hits = {} THEN -1
        ELSE (CHOOSE i \in hits : \A j \in hits : i >= j) - 1

RECURSIVE split(_, _)
split(s, sep) ==
    LET hits == { i \in 1..(Len(s) - Len(sep) + 1) :
                     SubSeq(s, i, i + Len(sep) - 1) = sep }
    IN  IF hits = {} THEN << s >>
        ELSE LET i == CHOOSE i \in hits : \A j \in hits : i <= j
             IN  << SubSeq(s, 1, i - 1) >>
                     \o split(SubSeq(s, i + Len(sep), Len(s)), sep)

RECURSIVE Join(_, _)
Join(ss, sep) ==
    IF ss = << >> THEN << >>
    ELSE IF Len(ss) = 1 THEN Head(ss)
    ELSE Head(ss) \o sep \o Join(Tail(ss), sep)

\* ------------------------------------------------------ the database loader
\* VulnerablePackage.__post_init__: the construction raises ValueError.
VulnerablePackage_raises(n, v) ==
    \/ n = << >> \/ strip(n) = << >>
    \/ v = << >> \/ strip(v) = << >>

\* MD_PATTERN.match(line) on a stripped line: "-", a run of whitespace, and
\* group(1), the rest (one character at least).
MD_PATTERN(line) ==
    IF line = << >> \/ Head(line) # "-" THEN [matched |-> FALSE]
    ELSE LET rest == Tail(line)
             after == lstrip(rest)
             run == Len(rest) - Len(after)
         IN  IF run = 0 THEN [matched |-> FALSE]
             ELSE IF after # << >> THEN [matched |-> TRUE, group |-> after]
             ELSE IF run >= 2 THEN [matched |-> TRUE, group |-> << rest[Len(rest)] >>]
             ELSE [matched |-> FALSE]

\* One pass of the loop of _parse_packages_md: the entries a line adds.
ParseMdLine_first_at(text) ==
    LET line == strip(text) IN
    IF line = << >> \/ ~startswith(line, << "-" >>) THEN << >>
    ELSE LET m == MD_PATTERN(line) IN
         IF ~m.matched THEN << >>
         ELSE LET entry == strip(m.group)
                  last_at == find(entry, "@", 0)
              IN  IF last_at <= 0 THEN << >>
                  ELSE LET n == slice(entry, 0, last_at)
                           v == slice(entry, last_at + 1, Len(entry))
                       IN  IF n = << >> \/ v = << >> THEN << >>
                           ELSE IF VulnerablePackage_raises(n, v) THEN << >>
                           ELSE << VulnerablePackage(n, v) >>

ParseMdLine(text) ==
    LET line == strip(text) IN
    IF line = << >> \/ ~startswith(line, << "-" >>) THEN << >>
    ELSE LET m == MD_PATTERN(line) IN
         IF ~m.matched THEN << >>
         ELSE LET entry == strip(m.group)
                  last_at == rfind(entry, "@")
              IN  IF last_at <= 0 THEN << >>
                  ELSE LET n == slice(entry, 0, last_at)
                           v == slice(entry, last_at + 1, Len(entry))
                       IN  IF n = << >> \/ v = << >> THEN << >>
                           ELSE IF VulnerablePackage_raises(n, v) THEN << >>
                           ELSE << VulnerablePackage(n, v) >>

RECURSIVE _parse_packages_md(_)
_parse_packages_md(lines) ==
    IF lines = << >> THEN << >>
    ELSE ParseMdLine(Head(lines)) \o _parse_packages_md(Tail(lines))

\* A row of wiz-packages.csv as csv.DictReader hands it over: the Package
\* field and the Version field, which is the row's alternatives joined by
\* "||"; a row shorter than the header has None for Version.
HasVersion(row) == "alternatives" \in DOMAIN row

Version(row) == Join(row.alternatives, << "|", "|" >>)

NormalizePart_keep_eq(text) == strip(text)

\* One pass of the loop of _parse_version_spec.
NormalizePart(text) ==
    LET part == strip(text)
    IN  IF startswith(part, << "=" >>) THEN strip(Tail(part)) ELSE part

_parse_version_spec(spec) ==
    LET parts == split(spec, << "|", "|" >>)
    IN  SelectSeq([i \in DOMAIN parts |-> NormalizePart(parts[i])],
                  LAMBDA part : part # << >>)

RECURSIVE PackagesOf(_, _)
PackagesOf(n, versions) ==
    IF versions = << >> THEN << >>
    ELSE (IF VulnerablePackage_raises(n, Head(versions)) THEN << >>
          ELSE << VulnerablePackage(n, Head(versions)) >>)
         \o PackagesOf(n, Tail(versions))

\* One pass of the loop of _parse_wiz_csv; None.strip() raises
\* AttributeError, which the loop's except Exception turns into a skipped row.
ParseCsvRow(row) ==
    IF ~HasVersion(row) THEN << >>
    ELSE LET n == strip(row.Package)
             version_spec == strip(Version(row))
         IN  IF n = << >> \/ version_spec = << >> THEN << >>
             ELSE PackagesOf(n, _parse_version_spec(version_spec))

RECURSIVE _parse_wiz_csv(_)
_parse_wiz_csv(rows) ==
    IF rows = << >> THEN << >>
    ELSE ParseCsvRow(Head(rows)) \o _parse_wiz_csv(Tail(rows))

\* A database directory: what db_path is, and the lines of packages.md and
\* the rows of wiz-packages.csv when the file exists.
DbDir(db_path, md_exists, md, csv_exists, csv) ==
    [kind |-> "db", db_path |-> db_path,
     md_exists |-> md_exists, md |-> md, csv_exists |-> csv_exists, csv |-> csv]

\* What load_all returns, with the entries it read from either file.
Loaded(md_packages, csv_packages) ==
    [outcome |-> "returned",
     md_packages |-> md_packages, csv_packages |-> csv_packages]
        @@ load_all(md_packages, csv_packages)

DatabaseParser_load_all_both_required(db) ==
    IF ~db.md_exists \/ ~db.csv_exists
    THEN [outcome |-> "raised", error |-> "FileNotFoundError"]
    ELSE Loaded(_parse_packages_md(db.md), _parse_wiz_csv(db.csv))

\* DatabaseParser.load_all on the directory.
DatabaseParser_load_all(db) ==
    IF ~db.md_exists /\ ~db.csv_exists
    THEN [outcome |-> "raised", error |-> "FileNotFoundError"]
    ELSE Loaded(IF db.md_exists THEN _parse_packages_md(db.md) ELSE << >>,
                IF db.csv_exists THEN _parse_wiz_csv(db.csv) ELSE << >>)

\* DatabaseParser.__init__, then _load_database.
Scanner__init__(db) ==
    IF db.db_path = "missing"
    THEN [outcome |-> "raised", error |-> "FileNotFoundError"]
    ELSE IF db.db_path # "dir"
    THEN [outcome |-> "raised", error |-> "ValueError"]
    ELSE DatabaseParser_load_all(db)

\* ------------------------------------------------- constructing a Scanner
MdPrefixes == { << "-", " " >>, << "-" >>, << " ", "-", "\t", " " >>, << "#", " " >> }

MdNames == { << >>, << "a" >>, << "@", "s", "/", "a" >> }

MdSeps == { << >>, << "@" >> }

MdVersions == { << >>, << "1" >> }

MdLines ==
    { p \o n \o s \o v : p \in MdPrefixes, n \in MdNames, s \in MdSeps, v \in MdVersions }

CsvPackages == { << "a" >>, << " ", "b", " " >> }

CsvAlternatives == { << >>, << " ", "1", " " >>, << "=", " ", "2" >>, << "=" >> }

\* "= 1.0.0 || = 2.0.0"
TwoVersions ==
    << << "=", " ", "1", ".", "0", ".", "0", " " >>,
       << " ", "=", " ", "2", ".", "0", ".", "0" >> >>

CsvRows ==
    { [Package |-> n, alternatives |-> alts] :
         n \in CsvPackages, alts \in [1..1 -> CsvAlternatives] \cup [1..2 -> CsvAlternatives] }
    \cup { [Package |-> << "a" >>, alternatives |-> TwoVersions],
           [Package |-> << >>, alternatives |-> << << "1" >> >>],
           [Package |-> << "a" >>] }

SmallMdLines ==
    { << "-", " ", "a", "@", "1" >>, << "-", " ", "a", "@", "2" >>,
      << "-", " ", "b", "@", "1" >>, << "a", "@", "1" >> }

SmallCsvRows ==
    { [Package |-> << "a" >>, alternatives |-> << << "=", "1" >> >>],
      [Package |-> << "a" >>, alternatives |-> << << "=", "2" >>, << "=", "1" >> >>],
      [Package |-> << "b" >>, alternatives |-> << << "1" >> >>] }

\* Before Scanner(db_path), no index yet: db_path is missing or a file; or a
\* directory with small files of either kind, with any packages.md alone, or
\* with any wiz-packages.csv alone.
InitDb ==
    /\ _vulnerable_set = {}
    /\ _vulnerable_by_name = << >>
    /\ _parsers = << >>
    /\ LOCK_FILE_NAMES = BuiltinLockFileNames
    /\ root = <<"proj">>
    /\ tree = << >>
    /\ packages = << >>
    /\ pc = "idle"
    /\ call = NoCall
    /\ ret = NoRet
    /\ siblings = << >>
    /\ scan_summary = NoSummary
    /\ \/ \E t \in {"missing", "file"} : doc = DbDir(t, FALSE, << >>, FALSE, << >>)
       \/ \E me \in BOOLEAN, md \in SeqsUpTo(SmallMdLines, MaxLines),
             ce \in BOOLEAN, csv \in SeqsUpTo(SmallCsvRows, MaxLines) :
             doc = DbDir("dir", me, IF me THEN md ELSE << >>, ce, IF ce THEN csv ELSE << >>)
       \/ \E md \in SeqsUpTo(MdLines, MaxLines) : doc = DbDir("dir", TRUE, md, FALSE, << >>)
       \/ \E csv \in SeqsUpTo(CsvRows, MaxLines) : doc = DbDir("dir", FALSE, << >>, TRUE, csv)

\* Scanner(db_path): an error leaves no scanner behind.
Construct ==
    /\ pc = "idle"
    /\ doc.kind = "db"
    /\ pc' = "done"
    /\ call' = [op |-> "Scanner", path |-> << >>]
    /\ \E r \in { Scanner__init__(doc) } :
          IF r.outcome = "raised"
          THEN /\ ret' = r
               /\ UNCHANGED << _vulnerable_set, _vulnerable_by_name, _parsers >>
          ELSE /\ ret' = [outcome |-> "returned", md_packages |-> r.md_packages,
                          csv_packages |-> r.csv_packages]
               /\ _vulnerable_set' = r.set
               /\ _vulnerable_by_name' = r.by_name
               /\ _parsers' = BuiltinParsers
    /\ UNCHANGED << LOCK_FILE_NAMES, root, tree, packages, doc, siblings,
                    scan_summary >>

NextDb == Construct

SpecDb == InitDb /\ [][NextDb]_vars

\* --------------------------------------------------- lock-file documents
\* A parsed JSON / YAML mapping is a function on its keys, and a mapping
\* whose key order matters (packages, dependencies, snapshots) is the
\* sequence of its << key, value >> items.  The value of an item is tagged:
\* [dict |-> TRUE, items |-> mapping] or [dict |-> FALSE] for anything else.
Has(mapping, k) == k \in DOMAIN mapping

NotADict == [dict |-> FALSE]

Dict(items) == [dict |-> TRUE, items |-> items]

\* info.get("version") is there and truthy
HasVersionField(info) == Has(info.items, "version") /\ info.items.version # << >>

LockFile(file_type) == << "proj", LockFileType[file_type] >>

\* InstalledPackage.__post_init__: the construction raises ValueError.
InstalledPackage_raises(n, v) ==
    \/ n = << >> \/ strip(n) = << >>
    \/ v = << >> \/ strip(v) = << >>

\* What a parse has done so far: the records appended, the (name, version)
\* pairs InstalledPackage was called with, and whether an exception left it.
NoPackages == [raised |-> FALSE, packages |-> << >>, constructed |-> << >>]

AppendPackage_uncaught(acc, n, v, file_type) ==
    IF acc.raised THEN acc
    ELSE IF InstalledPackage_raises(n, v)
    THEN [acc EXCEPT !.raised = TRUE, !.constructed = Append(@, << n, v >>)]
    ELSE [acc EXCEPT !.constructed = Append(@, << n, v >>),
                     !.packages = Append(@, InstalledPackage(n, v, LockFile(file_type), file_type))]

\* try: packages.append(InstalledPackage(...)) except ValueError: log.
AppendPackage(acc, n, v, file_type) ==
    IF acc.raised THEN acc
    ELSE IF InstalledPackage_raises(n, v)
    THEN [acc EXCEPT !.constructed = Append(@, << n, v >>)]
    ELSE [acc EXCEPT !.constructed = Append(@, << n, v >>),
                     !.packages = Append(@, InstalledPackage(n, v, LockFile(file_type), file_type))]

\* ------------------------------------------------------------ NpmParser
NpmParser_extract_package_name_first(path) ==
    LET parts == split(path, << "/" >>)
        nm == { i \in DOMAIN parts : parts[i] = << "n", "o", "d", "e", "_", "m", "o", "d", "u", "l", "e", "s" >> }
    IN  IF nm = {} THEN << >>
        ELSE LET first == CHOOSE i \in nm : \A j \in nm : i <= j
             IN  IF first >= Len(parts) THEN << >> ELSE parts[first + 1]

\* NpmParser._extract_package_name; last_nm_idx is 0-based.
NpmParser_extract_package_name(path) ==
    LET parts == split(path, << "/" >>)
        nm == { i \in DOMAIN parts : parts[i] = << "n", "o", "d", "e", "_", "m", "o", "d", "u", "l", "e", "s" >> }
        last_nm_idx == IF nm = {} THEN -1
                       ELSE (CHOOSE i \in nm : \A j \in nm : i >= j) - 1
    IN  IF last_nm_idx = -1 \/ last_nm_idx >= Len(parts) - 1 THEN << >>
        ELSE LET remaining == SubSeq(parts, last_nm_idx + 2, Len(parts))
             IN  IF startswith(remaining[1], << "@" >>) /\ Len(remaining) >= 2
                 THEN remaining[1] \o << "/" >> \o remaining[2]
                 ELSE remaining[1]

\* One pass of the loop of _parse_v2_v3.
ParseV2Item(acc, item) ==
    LET path == item[1]
        info == item[2]
    IN  IF ~info.dict THEN acc
        ELSE IF path = << >> THEN acc
        ELSE LET n == NpmParser_extract_package_name(path)
             IN  IF n = << >> THEN acc
                 ELSE IF ~HasVersionField(info) THEN acc
                 ELSE AppendPackage(acc, n, info.items.version, "NPM")

RECURSIVE ParseV2Items(_, _)
ParseV2Items(acc, items) ==
    IF items = << >> THEN acc
    ELSE ParseV2Items(ParseV2Item(acc, Head(items)), Tail(items))

_parse_v2_v3(data) ==
    ParseV2Items(NoPackages, IF Has(data, "packages") THEN data.packages ELSE << >>)

RECURSIVE _parse_dependencies_versioned_only(_, _)
_parse_dependencies_versioned_only(acc, dependencies) ==
    IF dependencies = << >> THEN acc
    ELSE LET n == Head(dependencies)[1]
             info == Head(dependencies)[2]
             nested == IF info.dict /\ HasVersionField(info) /\ Has(info.items, "dependencies")
                       THEN info.items.dependencies ELSE << >>
             acc1 == IF info.dict /\ HasVersionField(info)
                     THEN AppendPackage(acc, n, info.items.version, "NPM") ELSE acc
             acc2 == IF nested # << >>
                     THEN _parse_dependencies_versioned_only(acc1, nested) ELSE acc1
         IN  _parse_dependencies_versioned_only(acc2, Tail(dependencies))

RECURSIVE _parse_dependencies_recursive(_, _)
_parse_dependencies_recursive(acc, dependencies) ==
    IF dependencies = << >> THEN acc
    ELSE LET n == Head(dependencies)[1]
             info == Head(dependencies)[2]
             nested == IF info.dict /\ Has(info.items, "dependencies")
                       THEN info.items.dependencies ELSE << >>
             acc1 == IF info.dict /\ HasVersionField(info)
                     THEN AppendPackage(acc, n, info.items.version, "NPM") ELSE acc
             acc2 == IF nested # << >>
                     THEN _parse_dependencies_recursive(acc1, nested) ELSE acc1
         IN  _parse_dependencies_recursive(acc2, Tail(dependencies))

_parse_v1(data) ==
    _parse_dependencies_recursive(
        NoPackages, IF Has(data, "dependencies") THEN data.dependencies ELSE << >>)

\* NpmParser.parse on the mapping json.load returned.
NpmParser_parse_json(data) ==
    LET lockfile_version == IF Has(data, "lockfileVersion") THEN data.lockfileVersion ELSE 1
    IN  IF lockfile_version >= 2 THEN _parse_v2_v3(data) ELSE _parse_v1(data)

\* ----------------------------------------------------------- YarnParser
\* the lines _find_version looks at after an entry line
VersionLookahead == 10

\* str.strip(chars) for one character
RECURSIVE strip_char(_, _)
strip_char(s, c) ==
    IF s # << >> /\ Head(s) = c THEN strip_char(Tail(s), c)
    ELSE IF s # << >> /\ s[Len(s)] = c THEN strip_char(SubSeq(s, 1, Len(s) - 1), c)
    ELSE s

\* YarnParser._extract_package_name; << >> stands for None.
YarnParser_extract_package_name(specifier) ==
    LET at_index == IF startswith(specifier, << "@" >>)
                    THEN find(specifier, "@", 1) ELSE find(specifier, "@", 0)
    IN  IF at_index > 0 THEN slice(specifier, 0, at_index) ELSE << >>

\* _parse_entry_line: the set package_names.
_parse_entry_line(text) ==
    LET line == rstrip(text) IN
    IF line = << >> \/ startswith(line, << "#" >>) \/ ~endswith(line, << ":" >>) THEN {}
    ELSE LET parts == split(slice(line, 0, Len(line) - 1), << "," >>)
             names == { YarnParser_extract_package_name(
                            strip_char(strip_char(strip(parts[i]), "\""), "'")) :
                        i \in DOMAIN parts }
         IN  names \ { << >> }

\* VERSION_PATTERN.match(line): whitespace, "version", whitespace, and
\* group(1), the characters between the next two double quotes.
VERSION_PATTERN(line) ==
    LET word == lstrip(line) IN
    IF Len(word) = Len(line) \/ ~startswith(word, << "v", "e", "r", "s", "i", "o", "n" >>) THEN [matched |-> FALSE]
    ELSE LET rest == SubSeq(word, Len(<< "v", "e", "r", "s", "i", "o", "n" >>) + 1, Len(word))
             quoted == lstrip(rest)
         IN  IF Len(quoted) = Len(rest) \/ ~startswith(quoted, << "\"" >>)
             THEN [matched |-> FALSE]
             ELSE LET closing == find(Tail(quoted), "\"", 0)
                  IN  IF closing <= 0 THEN [matched |-> FALSE]
                      ELSE [matched |-> TRUE, group |-> slice(Tail(quoted), 0, closing)]

\* The loop of _find_version over lines[i .. stop] (1-based); << >> is None.
RECURSIVE FindVersionFrom(_, _, _)
FindVersionFrom(lines, i, stop) ==
    IF i > stop THEN << >>
    ELSE LET line == lines[i] IN
         IF line # << >> /\ Head(line) \notin Whitespace /\ endswith(rstrip(line), << ":" >>)
         THEN << >>
         ELSE LET m == VERSION_PATTERN(line)
              IN  IF m.matched THEN m.group ELSE FindVersionFrom(lines, i + 1, stop)

\* A variant that looks for the version up to the end of the file.
_find_version_to_the_end(lines, start_index) ==
    FindVersionFrom(lines, start_index + 1, Len(lines))

\* _find_version(lines, start_index), start_index 0-based.
_find_version(lines, start_index) ==
    LET stop == IF start_index + VersionLookahead < Len(lines)
                THEN start_index + VersionLookahead ELSE Len(lines)
    IN  FindVersionFrom(lines, start_index + 1, stop)

\* list(package_names): a set of strings comes in any order.
Orders(S) == { s \in [1..Cardinality(S) -> S] : Range(s) = S }

RECURSIVE AppendNames_unseen(_, _, _)
AppendNames_unseen(st, names, version) ==
    IF names = << >> THEN st
    ELSE AppendNames_unseen(
             [st EXCEPT !.acc = AppendPackage(@, Head(names), version, "YARN")],
             Tail(names), version)

\* for name in package_names: the seen_packages test, then the append.
RECURSIVE AppendNames(_, _, _)
AppendNames(st, names, version) ==
    IF names = << >> THEN st
    ELSE LET k == << Head(names), version >>
             st1 == IF k \in st.seen_packages THEN st
                    ELSE [seen_packages |-> st.seen_packages \cup {k},
                          acc |-> AppendPackage(st.acc, Head(names), version, "YARN")]
         IN  AppendNames(st1, Tail(names), version)

\* The while loop of YarnParser.parse from line i (1-based): every state it
\* can end in.
RECURSIVE YarnParseFrom(_, _, _)
YarnParseFrom(lines, i, st) ==
    IF i > Len(lines) THEN {st}
    ELSE LET package_names == _parse_entry_line(lines[i])
             version == IF package_names = {} THEN << >> ELSE _find_version(lines, i)
         IN  IF package_names = {} \/ version = << >>
             THEN YarnParseFrom(lines, i + 1, st)
             ELSE UNION { YarnParseFrom(lines, i + 1, AppendNames(st, names, version)) :
                             names \in Orders(package_names) }

\* YarnParser.parse on the lines readlines() returned (without their "\n").
YarnParser_parse_lines(lines) ==
    { st.acc : st \in YarnParseFrom(lines, 1, [seen_packages |-> {}, acc |-> NoPackages]) }

\* ----------------------------------------------------------- PnpmParser
RECURSIVE lstrip_char(_, _)
lstrip_char(s, c) == IF s # << >> /\ Head(s) = c THEN lstrip_char(Tail(s), c) ELSE s

\* (None, None)
NoKey == [name |-> << >>, version |-> << >>]

_parse_package_key_last_at(text) ==
    LET k == lstrip_char(text, "/")
        at == split(k, << "@" >>)
    IN  IF k = << >> \/ Len(at) < 2 THEN NoKey
        ELSE [name |-> Join(SubSeq(at, 1, Len(at) - 1), << "@" >>), version |-> at[Len(at)]]

\* PnpmParser._parse_package_key
_parse_package_key(text) ==
    LET k == lstrip_char(text, "/")
        at == split(k, << "@" >>)
        slash == split(k, << "/" >>)
    IN  IF k = << >> THEN NoKey
        ELSE IF startswith(k, << "@" >>)
        THEN IF Len(at) >= 3
             THEN [name |-> << "@" >> \o at[2], version |-> split(at[3], << "(" >>)[1]]
             ELSE IF Len(slash) >= 3
             THEN [name |-> slash[1] \o << "/" >> \o slash[2],
                   version |-> split(slash[3], << "(" >>)[1]]
             ELSE NoKey
        ELSE IF Len(at) >= 2
        THEN [name |-> at[1], version |-> split(at[2], << "(" >>)[1]]
        ELSE IF Len(slash) >= 2
        THEN [name |-> slash[1], version |-> split(slash[2], << "(" >>)[1]]
        ELSE NoKey

\* One pass of the loop of PnpmParser.parse.
ParsePnpmItem(acc, item) ==
    LET k == _parse_package_key(item.key)
    IN  IF k.name = << >> \/ k.version = << >> THEN acc
        ELSE AppendPackage(acc, k.name, k.version, "PNPM")

RECURSIVE ParsePnpmItems(_, _)
ParsePnpmItems(acc, items) ==
    IF items = << >> THEN acc
    ELSE ParsePnpmItems(ParsePnpmItem(acc, Head(items)), Tail(items))

PnpmParser_parse_yaml_combined(data) ==
    ParsePnpmItems(NoPackages,
                   (IF Has(data, "packages") THEN data.packages ELSE << >>)
                   \o (IF Has(data, "snapshots") THEN data.snapshots ELSE << >>))

\* PnpmParser.parse on the mapping yaml.safe_load returned.
PnpmParser_parse_yaml(data) ==
    IF DOMAIN data = {} THEN NoPackages
    ELSE LET packages_obj == IF Has(data, "packages") THEN data.packages ELSE << >>
         IN  ParsePnpmItems(NoPackages,
                            IF packages_obj # << >> THEN packages_obj
                            ELSE IF Has(data, "snapshots") THEN data.snapshots ELSE << >>)

\* ------------------------------------------------ parsing one lock file
\* package-lock.json: the keys of "packages" ...
NpmPaths ==
    { << >>, << "n", "o", "d", "e", "_", "m", "o", "d", "u", "l", "e", "s", "/", "l", "o", "d", "a", "s", "h" >>, << "n", "o", "d", "e", "_", "m", "o", "d", "u", "l", "e", "s", "/", "@", "b", "a", "b", "e", "l", "/", "c", "o", "r", "e" >>,
      << "n", "o", "d", "e", "_", "m", "o", "d", "u", "l", "e", "s", "/", "l", "o", "d", "a", "s", "h", "/", "n", "o", "d", "e", "_", "m", "o", "d", "u", "l", "e", "s", "/", "a" >>, << "s", "r", "c", "/", "a" >>, << "n", "o", "d", "e", "_", "m", "o", "d", "u", "l", "e", "s" >>,
      << "n", "o", "d", "e", "_", "m", "o", "d", "u", "l", "e", "s", "/", "@", "s" >>, << "n", "o", "d", "e", "_", "m", "o", "d", "u", "l", "e", "s", "/", " " >> }

\* ... and their values
NpmInfos ==
    { NotADict, Dict(<< >>), Dict([version |-> << "1" >>]), Dict([version |-> << " " >>]) }

\* The items of a mapping: up to n of them, no key twice.
ItemsUpTo(Keys, Values, n) ==
    UNION { { [i \in DOMAIN ks |-> << ks[i], vs[i] >>] : vs \in [DOMAIN ks -> Values] } :
               ks \in { s \in SeqsUpTo(Keys, n) :
                           \A i, j \in DOMAIN s : i # j => s[i] # s[j] } }

\* "dependencies" maps nested depth levels deep below the top one
RECURSIVE DepInfos(_)
DepInfos(depth) ==
    { NotADict, Dict(<< >>), Dict([version |-> << "1" >>]), Dict([version |-> << " " >>]) }
    \cup (IF depth = 0 THEN {}
          ELSE { Dict(v @@ [dependencies |-> << << << "b" >>, info >> >>]) :
                    v \in { << >>, [version |-> << "1" >>] }, info \in DepInfos(depth - 1) })

SomePackages == << << << "n", "o", "d", "e", "_", "m", "o", "d", "u", "l", "e", "s", "/", "z" >>, Dict([version |-> << "9" >>]) >> >>

SomeDependencies == << << << "z" >>, Dict([version |-> << "9" >>]) >> >>

\* The root project and two installed packages.
RootAndTwoPackages ==
    << << << >>, Dict([version |-> << "1" >>]) >>,
       << << "n", "o", "d", "e", "_", "m", "o", "d", "u", "l", "e", "s", "/", "l", "o", "d", "a", "s", "h" >>, Dict([version |-> << "1" >>]) >>,
       << << "n", "o", "d", "e", "_", "m", "o", "d", "u", "l", "e", "s", "/", "@", "b", "a", "b", "e", "l", "/", "c", "o", "r", "e" >>, Dict([version |-> << "1" >>]) >> >>

NpmDoc(data) == [kind |-> "npm", data |-> data]

\* yarn.lock: the lines, each with what it is
Header(text, names) == [t |-> "header", text |-> text, names |-> names]

VersionLine(v) ==
    [t |-> "version", text |-> << " ", " ", "v", "e", "r", "s", "i", "o", "n", " " >> \o << "\"" >> \o v \o << "\"" >>, version |-> v]

Other(text) == [t |-> "other", text |-> text]

YarnLines ==
    { Header(<< "l", "o", "d", "a", "s", "h", "@", "^", "4", ".", "1", "7", ".", "0", ",", " ", "l", "o", "d", "a", "s", "h", "@", "^", "4", ".", "1", "7", ".", "2", "1", ":" >>, { << "l", "o", "d", "a", "s", "h" >> }),
      Header(<< "a", "@", "^", "1", ",", " " >> \o << "\"" >> \o << "@", "s", "/", "a", "@", "^", "1" >> \o << "\"" >> \o << ":" >>,
             { << "a" >>, << "@", "s", "/", "a" >> }),
      Header(<< "a", "@", "^", "2", ":" >>, { << "a" >> }) }
    \cup { VersionLine(v) : v \in { << "1" >>, << "4", ".", "1", "7", ".", "2", "1" >>, << " " >> } }
    \cup { Other(<< " ", " ", "r", "e", "s", "o", "l", "v", "e", "d", " ", "x" >>), Other(<< >>) }

YarnDoc(lines) == [kind |-> "yarn", lines |-> lines]

\* pnpm-lock.yaml: a key of "packages" / "snapshots" with the shape it has
Shaped(text, n, v) == [key |-> text, shaped |-> TRUE, name |-> n, version |-> v]

Unshaped(text) == [key |-> text, shaped |-> FALSE]

PnpmItems ==
    { Shaped(n \o << "@" >> \o v \o peers, n, v) :
         n \in { << "a" >>, << "@", "s", "/", "a" >> }, v \in { << "1" >>, << >> }, peers \in { << >>, << "(", "p", "@", "2", ")" >> } }
    \cup { Shaped(n \o << "/" >> \o v, n, v) : n \in { << "a" >>, << "@", "s", "/", "a" >> }, v \in { << "1" >>, << >> } }
    \cup { Shaped(<< "/" >> \o n \o sep \o << "2" >>, n, << "2" >>) :
              n \in { << "a" >>, << "@", "s", "/", "a" >> }, sep \in { << "@" >>, << "/" >> } }
    \cup { Shaped(<< "a", "@", " " >>, << "a" >>, << " " >>) }
    \cup { Unshaped(text) : text \in { << >>, << "/" >>, << "a" >>, << "@", "s", "/", "a" >> } }

SmallPnpmItems == { Shaped(<< "b", "@", "2" >>, << "b" >>, << "2" >>), Unshaped(<< "b" >>) }

KeysUpTo(S, n) ==
    { s \in SeqsUpTo(S, n) : \A i, j \in DOMAIN s : i # j => s[i].key # s[j].key }

PnpmDoc(data) == [kind |-> "pnpm", data |-> data]

\* A parser about to read one well-formed lock file.
InitParse ==
    /\ LET idx == load_all(DbFixture, << >>) IN
          /\ _vulnerable_set = idx.set
          /\ _vulnerable_by_name = idx.by_name
    /\ _parsers = BuiltinParsers
    /\ LOCK_FILE_NAMES = BuiltinLockFileNames
    /\ root = <<"proj">>
    /\ tree = << >>
    /\ packages = << >>
    /\ pc = "idle"
    /\ call = NoCall
    /\ ret = NoRet
    /\ siblings = << >>
    /\ scan_summary = NoSummary
    /\ \/ \E items \in ItemsUpTo(NpmPaths, NpmInfos, MaxLines) :
             doc = NpmDoc([lockfileVersion |-> 2, packages |-> items])
       \/ doc = NpmDoc([lockfileVersion |-> 3, packages |-> RootAndTwoPackages,
                        dependencies |-> SomeDependencies])
       \/ \E items \in ItemsUpTo({ << "a" >>, << "c" >> }, DepInfos(MaxDepth), MaxLines) :
             \/ doc = NpmDoc([dependencies |-> items])
             \/ doc = NpmDoc([lockfileVersion |-> 1, dependencies |-> items,
                              packages |-> SomePackages])
       \/ \E lines \in SeqsUpTo(YarnLines, MaxYarnLines) : doc = YarnDoc(lines)
       \/ \E items \in KeysUpTo(PnpmItems, MaxLines) :
             \/ doc = PnpmDoc([packages |-> items])
             \/ doc = PnpmDoc([packages |-> items,
                               snapshots |-> << Shaped(<< "b", "@", "2" >>, << "b" >>, << "2" >>) >>])
       \/ \E items \in KeysUpTo(SmallPnpmItems, MaxLines) :
             \/ doc = PnpmDoc([snapshots |-> items])
             \/ doc = PnpmDoc([packages |-> << >>, snapshots |-> items])
       \/ doc = PnpmDoc(<< >>)

ParseResult(acc) ==
    [outcome |-> IF acc.raised THEN "raised" ELSE "returned",
     packages |-> acc.packages, constructed |-> acc.constructed]

Parse(op, acc) ==
    /\ pc = "idle"
    /\ pc' = "done"
    /\ call' = [op |-> op, path |-> << >>]
    /\ ret' = ParseResult(acc)
    /\ UNCHANGED << _vulnerable_set, _vulnerable_by_name, _parsers,
                    LOCK_FILE_NAMES, root, tree, packages, doc, siblings,
                    scan_summary >>

NpmParse ==
    /\ doc.kind = "npm"
    /\ Parse("NpmParser.parse", NpmParser_parse_json(doc.data))

YarnParse ==
    /\ doc.kind = "yarn"
    /\ \E acc \in YarnParser_parse_lines([i \in DOMAIN doc.lines |-> doc.lines[i].text]) :
          Parse("YarnParser.parse", acc)

PnpmParse ==
    /\ doc.kind = "pnpm"
    /\ Parse("PnpmParser.parse", PnpmParser_parse_yaml(doc.data))

NextParse == NpmParse \/ YarnParse \/ PnpmParse

SpecParse == InitParse /\ [][NextParse]_vars


\* ------------------------------------------- yarn.lock entries with a body
\* The lines between an entry line and its version line: k times the same
\* indented field, section line or blank line.
Fillers == { Other(<< " ", " ", "r", "e", "s", "o", "l", "v", "e", "d", " ", "x" >>), Other(<< " ", " ", "d", "e", "p", "e", "n", "d", "e", "n", "c", "i", "e", "s", ":" >>), Other(<< >>) }

Body(k, filler) == [j \in 1..k |-> filler]

FirstEntry == Header(<< "a", "@", "^", "1", ":" >>, { << "a" >> })

SecondEntry == Header(<< "b", "@", "^", "2", ":" >>, { << "b" >> })

\* A yarn.lock of one or two entries whose version lines come after a body
\* of up to MaxGap lines, or after the next entry line, or twice.
InitYarn ==
    /\ _vulnerable_set = {}
    /\ _vulnerable_by_name = << >>
    /\ _parsers = BuiltinParsers
    /\ LOCK_FILE_NAMES = BuiltinLockFileNames
    /\ root = <<"proj">>
    /\ tree = << >>
    /\ packages = << >>
    /\ pc = "idle"
    /\ call = NoCall
    /\ ret = NoRet
    /\ siblings = << >>
    /\ scan_summary = NoSummary
    /\ \E k \in 0..MaxGap, filler \in Fillers :
          \/ doc = YarnDoc(<< FirstEntry >> \o Body(k, filler) \o << VersionLine(<< "1" >>) >>)
          \/ doc = YarnDoc(<< FirstEntry >> \o Body(k, filler)
                              \o << SecondEntry, VersionLine(<< "2" >>) >>)
          \/ doc = YarnDoc(<< FirstEntry, VersionLine(<< "1" >>) >> \o Body(k, filler)
                              \o << VersionLine(<< "2" >>) >>)
          \/ \E m \in 0..MaxGap :
                doc = YarnDoc(<< FirstEntry >> \o Body(k, filler)
                                 \o << VersionLine(<< "1" >>), SecondEntry >>
                                 \o Body(m, filler) \o << VersionLine(<< "2" >>) >>)

NextYarn == YarnParse

SpecYarn == InitYarn /\ [][NextYarn]_vars

\* ------------------------------------------------------ registering parsers
\* self._parsers.append(parser); self.LOCK_FILE_NAMES[...] = ... : Scanner
\* never assigns LOCK_FILE_NAMES on an instance, so the subscript assignment
\* goes to the one dictionary of the class, which every instance reads.
register_parser(parsers, names, parser) ==
    [_parsers |-> Append(parsers, parser),
     LOCK_FILE_NAMES |->
        [f \in DOMAIN names \cup {parser.filename} |->
            IF f = parser.filename THEN parser.file_type ELSE names[f]]]

\* The parsers a caller registers: a Yarn-format parser for a file name of
\* its own, and a second parser for a name a built-in parser already claims.
CustomParsers ==
    { [filename |-> "bun.lock", file_type |-> "YARN"],
      [filename |-> "package-lock.json", file_type |-> "PNPM"] }

\* The trees of these scans: files with the registered name at the top, in a
\* subdirectory and under node_modules, and a file whose name only contains it.
RegisteredEntries ==
    { Entry(<<"bun.lock">>, "file", FALSE, "valid"),
      Entry(<<"bun.lock.bak">>, "file", FALSE, "valid"),
      Entry(<<"src">>, "dir", FALSE, "none"),
      Entry(<<"node_modules">>, "dir", FALSE, "none"),
      Entry(<<"node_modules", "bun.lock">>, "file", FALSE, "valid"),
      Entry(<<"node_modules", "yarn.lock">>, "file", TRUE, "valid"),
      Entry(<<"src", "bun.lock">>, "file", FALSE, "valid") }

\* The number of register_parser calls made so far, on any instance.
Registrations ==
    (Len(_parsers) - Len(BuiltinParsers))
        + SumSeq([i \in DOMAIN siblings |-> Len(siblings[i]) - Len(BuiltinParsers)])

\* One Scanner over the database fixture; no other instance yet.
InitRegister ==
    /\ LET idx == load_all(DbFixture, << >>) IN
          /\ _vulnerable_set = idx.set
          /\ _vulnerable_by_name = idx.by_name
    /\ _parsers = BuiltinParsers
    /\ LOCK_FILE_NAMES = BuiltinLockFileNames
    /\ root = <<"proj">>
    /\ tree = << >>
    /\ packages = << InstalledPackage("vuln-pkg", "1.0.0", LockPath, "NPM") >>
    /\ pc = "idle"
    /\ call = NoCall
    /\ ret = NoRet
    /\ doc = NoDoc
    /\ siblings = << >>
    /\ scan_summary = NoSummary

\* Scanner(db_path) once more: the new instance gets its own _parsers list.
NewScanner ==
    /\ pc = "idle"
    /\ Len(siblings) < MaxScanners - 1
    /\ siblings' = Append(siblings, BuiltinParsers)
    /\ UNCHANGED << _vulnerable_set, _vulnerable_by_name, _parsers,
                    LOCK_FILE_NAMES, root, tree, packages, pc, call, ret, doc,
                    scan_summary >>

\* A variant that reloads the database when a parser is registered.
RegisterParser_reloading(p) ==
    /\ pc = "idle"
    /\ Registrations < MaxRegistered
    /\ LET r == register_parser(_parsers, LOCK_FILE_NAMES, p)
           idx == load_all(<< >>, << >>)
       IN  /\ _parsers' = r._parsers
           /\ LOCK_FILE_NAMES' = r.LOCK_FILE_NAMES
           /\ _vulnerable_set' = idx.set
           /\ _vulnerable_by_name' = idx.by_name
    /\ call' = [op |-> "register_parser", path |-> << >>, parser |-> p]
    /\ UNCHANGED << root, tree, packages, pc, ret, doc, siblings, scan_summary >>

\* scanner.register_parser(p) on this instance; further calls may follow.
RegisterParser(p) ==
    /\ pc = "idle"
    /\ Registrations < MaxRegistered
    /\ LET r == register_parser(_parsers, LOCK_FILE_NAMES, p)
       IN  /\ _parsers' = r._parsers
           /\ LOCK_FILE_NAMES' = r.LOCK_FILE_NAMES
    /\ call' = [op |-> "register_parser", path |-> << >>, parser |-> p]
    /\ UNCHANGED << _vulnerable_set, _vulnerable_by_name, root, tree, packages,
                    pc, ret, doc, siblings, scan_summary >>

\* other.register_parser(p) on another instance.
RegisterParserOn(i, p) ==
    /\ pc = "idle"
    /\ Registrations < MaxRegistered
    /\ LET r == register_parser(siblings[i], LOCK_FILE_NAMES, p)
       IN  /\ siblings' = [siblings EXCEPT ![i] = r._parsers]
           /\ LOCK_FILE_NAMES' = r.LOCK_FILE_NAMES
    /\ call' = [op |-> "register_parser", path |-> << >>, parser |-> p,
                instance |-> i]
    /\ UNCHANGED << _vulnerable_set, _vulnerable_by_name, _parsers, root, tree,
                    packages, pc, ret, doc, scan_summary >>

NextRegister ==
    \/ \E e \in RegisteredEntries : CreateEntry(e)
    \/ NewScanner
    \/ \E p \in CustomParsers : RegisterParser(p)
    \/ \E i \in DOMAIN siblings, p \in CustomParsers : RegisterParserOn(i, p)
    \/ \E path \in Targets : Scan(path)
    \/ \E path \in Targets : ScanFile(path)
    \/ \E path \in Targets : ScanDirectory(path)
    \/ \E path \in Targets : DiscoverLockFiles(path)
    \/ MatchPackages

SpecRegister == InitRegister /\ [][NextRegister]_vars

\* ------------------------------------------- ScanSummary and its renderings
\* ScanSummary.vulnerabilities_found / has_vulnerabilities (properties).
vulnerabilities_found(summary) == Len(summary.vulnerabilities)

has_vulnerabilities(summary) == Len(summary.vulnerabilities) > 0

\* hasattr(summary, attribute): the fields and properties ScanSummary defines;
\* reading any other attribute raises AttributeError.
ScanSummary_attributes ==
    {"scan_date", "target_path", "files_scanned", "vulnerabilities", "warnings",
     "vulnerabilities_found", "has_vulnerabilities",
     "add_result", "add_warning", "increment_files_scanned"}

\* str(path) of a resolved POSIX path.
RECURSIVE str(_)
str(path) == IF path = << >> THEN "" ELSE "/" \o Head(path) \o str(Tail(path))

\* summary.scan_date.isoformat(): the model has no clock, every summary
\* carries this instant.
ScanDate == "2025-01-01T00:00:00+00:00"

\* JSON text, as the values the encoder writes: a string, a number, an array
\* of values, an object (its members in the order they are written).
JsonString(s) == [json |-> "string", chars |-> s]

JsonNumber(n) == [json |-> "number", digits |-> n]

JsonArray(items) == [json |-> "array", items |-> items]

JsonObject(members) == [json |-> "object", members |-> members]

Member(k, value) == [key |-> k, value |-> value]

\* One element of "results".
ResultToDict(result) ==
    [package |-> result.package_name,
     version |-> result.installed_version,
     file_type |-> LockFileType[result.file_type],
     file_path |-> str(result.file_path)]

\* A variant that lists every (package, version) pair once.
RECURSIVE UniqueResults(_)
UniqueResults(results) ==
    IF results = << >> THEN << >>
    ELSE LET rest == UniqueResults(Tail(results))
         IN  IF \E i \in DOMAIN rest :
                    /\ rest[i].package = ResultToDict(Head(results)).package
                    /\ rest[i].version = ResultToDict(Head(results)).version
             THEN rest
             ELSE << ResultToDict(Head(results)) >> \o rest

_to_dict_unique_results(summary) ==
    [scan_date |-> ScanDate,
     target_path |-> str(summary.target_path),
     files_scanned |-> summary.files_scanned,
     vulnerabilities_found |-> vulnerabilities_found(summary),
     results |-> UniqueResults(summary.vulnerabilities),
     warnings |-> summary.warnings]

\* JsonOutput._to_dict
_to_dict(summary) ==
    [scan_date |-> ScanDate,
     target_path |-> str(summary.target_path),
     files_scanned |-> summary.files_scanned,
     vulnerabilities_found |-> vulnerabilities_found(summary),
     results |-> [i \in DOMAIN summary.vulnerabilities |->
                     ResultToDict(summary.vulnerabilities[i])],
     warnings |-> summary.warnings]

\* json.dumps of one element of "results".
DumpResult(r) ==
    JsonObject(<< Member("package", JsonString(r.package)),
                  Member("version", JsonString(r.version)),
                  Member("file_type", JsonString(r.file_type)),
                  Member("file_path", JsonString(r.file_path)) >>)

\* json.dumps(data, indent=2, default=str) of the dictionary of _to_dict.
json_dumps(data) ==
    JsonObject(<<
        Member("scan_date", JsonString(data.scan_date)),
        Member("target_path", JsonString(data.target_path)),
        Member("files_scanned", JsonNumber(data.files_scanned)),
        Member("vulnerabilities_found", JsonNumber(data.vulnerabilities_found)),
        Member("results",
               JsonArray([i \in DOMAIN data.results |-> DumpResult(data.results[i])])),
        Member("warnings",
               JsonArray([i \in DOMAIN data.warnings |-> JsonString(data.warnings[i])])) >>)

\* json.loads: an object becomes a dict (of a repeated key the last member
\* counts), an array a list, a string a str, a number an int.
RECURSIVE json_loads(_)
json_loads(text) ==
    IF text.json = "string" THEN text.chars
    ELSE IF text.json = "number" THEN text.digits
    ELSE IF text.json = "array"
    THEN [i \in DOMAIN text.items |-> json_loads(text.items[i])]
    ELSE LET keys == { text.members[i].key : i \in DOMAIN text.members }
             last(k) == CHOOSE i \in DOMAIN text.members :
                           /\ text.members[i].key = k
                           /\ \A j \in DOMAIN text.members :
                                 text.members[j].key = k => j <= i
         IN  [k \in keys |-> json_loads(text.members[last(k)].value)]

\* JsonOutput.format
JsonOutput_format(summary) == json_dumps(_to_dict(summary))

\* ConsoleOutput.format: it reads summary.has_version_mismatch_warnings after
\* the findings (console.py:40) and again in _print_summary.
ConsoleOutput_format(summary) ==
    IF "has_version_mismatch_warnings" \in ScanSummary_attributes
    THEN [outcome |-> "returned"]
    ELSE [outcome |-> "raised", error |-> "AttributeError"]

\* The results and warnings a caller adds to a summary.
TmpLock == << "tmp", "lock" >>

SomeResults ==
    { ScanResult("vuln-pkg", "1.0.0", << "1.0.0" >>, TmpLock, "NPM"),
      ScanResult("vuln-pkg", "1.2.3", << "1.2.3", "1.0.0" >>, TmpLock, "NPM"),
      ScanResult("other-pkg", "1.0.0", << "1.0.0" >>, << "tmp", "yarn.lock" >>, "YARN") }

SomeWarnings == { "Test warning", "Failed to parse /tmp/lock: bad" }

\* summary = ScanSummary(scan_date=..., target_path=Path("/tmp"))
InitSummary ==
    /\ _vulnerable_set = {}
    /\ _vulnerable_by_name = << >>
    /\ _parsers = << >>
    /\ LOCK_FILE_NAMES = BuiltinLockFileNames
    /\ root = << "tmp" >>
    /\ tree = << >>
    /\ packages = << >>
    /\ pc = "idle"
    /\ call = NoCall
    /\ ret = NoRet
    /\ doc = NoDoc
    /\ siblings = << >>
    /\ scan_summary = ScanSummary(<< "tmp" >>)

\* One method call on the summary; ret keeps the summary as it was before.
Update(op, arg, after) ==
    /\ pc = "idle"
    /\ scan_summary' = after
    /\ call' = [op |-> op, path |-> << >>, arg |-> arg]
    /\ ret' = [outcome |-> "returned", before |-> scan_summary]
    /\ UNCHANGED << _vulnerable_set, _vulnerable_by_name, _parsers,
                    LOCK_FILE_NAMES, root, tree, packages, pc, doc, siblings >>

AddResult(result) ==
    /\ Len(scan_summary.vulnerabilities) < MaxResults
    /\ Update("add_result", result, add_result(scan_summary, result))

AddWarning(warning) ==
    /\ Len(scan_summary.warnings) < MaxWarnings
    /\ Update("add_warning", warning, add_warning(scan_summary, warning))

IncrementFilesScanned ==
    /\ scan_summary.files_scanned < MaxFilesScanned
    /\ Update("increment_files_scanned", << >>, increment_files_scanned(scan_summary))

\* JsonOutput().format(summary)
Format ==
    /\ pc = "idle"
    /\ pc' = "done"
    /\ call' = [op |-> "JsonOutput.format", path |-> << >>]
    /\ ret' = [outcome |-> "returned", output |-> JsonOutput_format(scan_summary)]
    /\ UNCHANGED << _vulnerable_set, _vulnerable_by_name, _parsers,
                    LOCK_FILE_NAMES, root, tree, packages, doc, siblings,
                    scan_summary >>

NextSummary ==
    \/ \E result \in SomeResults : AddResult(result)
    \/ \E warning \in SomeWarnings : AddWarning(warning)
    \/ IncrementFilesScanned
    \/ Format

SpecSummary == InitSummary /\ [][NextSummary]_vars

\* ------------------------------------------------- the command-line program
EXIT_SUCCESS == 0

EXIT_VULNERABILITIES == 1

EXIT_ERROR == 2

\* What main() does: it returns an exit code, or an exception leaves it.
Exit(code) == [outcome |-> "returned", code |-> code]

Raise(error) == [outcome |-> "raised", error |-> error]

\* packages.md of the database fixture.
FixtureMd == << << "-", " ", "v", "u", "l", "n", "-", "p", "k", "g", "@", "1", ".", "0", ".", "0" >>, << "-", " ", "v", "u", "l", "n", "-", "p", "k", "g", "@", "1", ".", "1", ".", "0" >> >>

\* --db-path: a path that does not exist, a directory without database
\* files, the directory of the database fixture.
CliDatabases ==
    { DbDir("missing", FALSE, << >>, FALSE, << >>),
      DbDir("dir", FALSE, << >>, FALSE, << >>),
      DbDir("dir", TRUE, FixtureMd, FALSE, << >>) }

\* --format, and --output: absent, a file that can be written, one that cannot.
Formats == {"console", "json"}

Outputs == {"none", "writable", "unwritable"}

Args(path, format, output, db) ==
    [path |-> path, format |-> format, output |-> output, db |-> db]

\* main() from "Handle output" on, for the summary the scan returned.
HandleOutput(args, summary) ==
    LET code == IF has_vulnerabilities(summary)
                THEN EXIT_VULNERABILITIES ELSE EXIT_SUCCESS
    IN  IF args.format = "console"
        THEN IF ConsoleOutput_format(summary).outcome = "raised"
             THEN Raise(ConsoleOutput_format(summary).error)
             ELSE IF args.output = "unwritable" THEN Exit(EXIT_ERROR)
             ELSE Exit(code)
        ELSE IF args.output = "unwritable" THEN Exit(EXIT_ERROR)
             ELSE Exit(code)

\* main(): the scanner it builds over the fixture directory has the index
\* held in _vulnerable_set and _vulnerable_by_name.
main(args) ==
    IF ~exists(args.path) THEN Exit(EXIT_ERROR)
    ELSE IF Scanner__init__(args.db).outcome = "raised" THEN Exit(EXIT_ERROR)
    ELSE LET scanned == scan(args.path) IN
         IF scanned.outcome = "raised" THEN Exit(EXIT_ERROR)
         ELSE HandleOutput(args, scanned.summary)

\* The trees the program is run on.
CliEntries ==
    { Entry(<<"package-lock.json">>, "file", FALSE, c) :
         c \in {"valid", "clean", "invalid_syntax", "undecodable"} }
    \cup { Entry(<<"src">>, "dir", FALSE, "none"),
           Entry(<<"notes.txt">>, "file", FALSE, "other"),
           Entry(<<"src", "yarn.lock">>, "file", FALSE, "valid") }

Main(args) == Invoke("main", args.path, [args |-> args] @@ main(args))

NextCli ==
    \/ \E e \in CliEntries : CreateEntry(e)
    \/ \E path \in Targets, format \in Formats, output \in Outputs,
          db \in CliDatabases : Main(Args(path, format, output, db))

SpecCli == Init /\ [][NextCli]_vars
\* ================================================================ properties
Matched == pc = "done" /\ call.op = "match_packages"

\* The records of the input whose (name, version) pair is in the pair-set.
Hits == SelectSeq(packages, LAMBDA p : << p.name, p.version >> \in _vulnerable_set)

\* C1: match_packages returns, in input order, exactly one ScanResult for
\* every record whose (name, version) pair is in the pair-set and nothing for
\* any other record; a record occurring several times yields one result per
\* occurrence.
C1_MatchesInInputOrder ==
    Matched =>
        /\ Len(ret.results) = Len(Hits)
        /\ \A i \in DOMAIN ret.results :
              /\ ret.results[i].package_name = Hits[i].name
              /\ ret.results[i].installed_version = Hits[i].version
              /\ ret.results[i].file_path = Hits[i].file_path
              /\ ret.results[i].file_type = Hits[i].file_type

\* A matching record occurs twice and is reported twice, next to a record
\* that is not reported.
C1_Witness ==
    /\ Matched
    /\ Len(ret.results) = 2
    /\ ret.results[1] = ret.results[2]
    /\ Len(packages) = 3
    /\ key(packages[2]) \notin _vulnerable_set

\* C3: the vulnerable_versions of every ScanResult is the index's full list
\* for the package name: every version v with (name, v) in the pair-set, in
\* index order, not only the installed one.
C3_FullVersionList ==
    Matched =>
        \A i \in DOMAIN ret.results :
            LET r == ret.results[i] IN
            /\ r.package_name \in DOMAIN _vulnerable_by_name
            /\ r.vulnerable_versions = _vulnerable_by_name[r.package_name]
            /\ Range(r.vulnerable_versions) =
                  { v \in Versions : << r.package_name, v >> \in _vulnerable_set }

\* A result whose list holds a sibling version besides the installed one.
C3_Witness ==
    /\ Matched
    /\ \E i \in DOMAIN ret.results :
          /\ Len(ret.results[i].vulnerable_versions) = 2
          /\ ret.results[i].vulnerable_versions[1] # ret.results[i].installed_version

Called(op) == pc = "done" /\ call.op = op

\* A name-only match: the name is a key of the name-to-versions map, the
\* (name, version) pair is not in the pair-set.
NameOnly(pkg) ==
    pkg.name \in DOMAIN _vulnerable_by_name /\ key(pkg) \notin _vulnerable_set

ResultsFor(summary, pkg) ==
    { j \in DOMAIN summary.vulnerabilities :
        /\ summary.vulnerabilities[j].package_name = pkg.name
        /\ summary.vulnerabilities[j].installed_version = pkg.version }

\* C2: a name-only match yields no ScanResult and exactly one
\* VersionMismatchWarning for the record, carrying the index's version list
\* for the name; a record whose name is not in the index yields neither.
C2_NameOnlyMatchWarns ==
    (Called("scan_file") /\ ret.summary.files_scanned = 1) =>
        LET pkgs == parse(_get_parser_for_file(call.path), call.path).packages IN
        \A i \in DOMAIN pkgs :
            /\ NameOnly(pkgs[i]) =>
                  /\ ResultsFor(ret.summary, pkgs[i]) = {}
                  /\ "version_mismatch_warnings" \in DOMAIN ret.summary
                  /\ Cardinality(
                        { j \in DOMAIN ret.summary.version_mismatch_warnings :
                            LET w == ret.summary.version_mismatch_warnings[j] IN
                            /\ w.package_name = pkgs[i].name
                            /\ w.installed_version = pkgs[i].version
                            /\ w.known_vulnerable_versions =
                                  _vulnerable_by_name[pkgs[i].name] }) = 1
            /\ pkgs[i].name \notin DOMAIN _vulnerable_by_name =>
                  ResultsFor(ret.summary, pkgs[i]) = {}

\* C4: scan(path) takes the branch of the path's filesystem type: a regular
\* file gives what scan_file gives, a directory what scan_directory gives, and
\* a path that is neither gives a summary with exactly one warning, no
\* vulnerability and files_scanned = 0; in every branch a summary is returned.
C4_ScanDispatch ==
    Called("scan") =>
        /\ ret.outcome = "returned"
        /\ ret.summary.target_path = call.path
        /\ is_file(call.path) => ret = scan_file(call.path)
        /\ (~is_file(call.path) /\ is_dir(call.path)) =>
              ret = scan_directory(call.path)
        /\ (~is_file(call.path) /\ ~is_dir(call.path)) =>
              /\ Len(ret.summary.warnings) = 1
              /\ ret.summary.vulnerabilities = << >>
              /\ ret.summary.files_scanned = 0
              /\ ret.parsed = << >>

\* scan was called on a path that is neither a file nor a directory, in a
\* tree that holds a lock file.
C4_Witness ==
    /\ Called("scan")
    /\ ~exists(call.path)
    /\ tree # << >>
    /\ Len(ret.summary.warnings) = 1

\* C5: scan_file returns early, without invoking a parser, with exactly one
\* warning, files_scanned = 0 and no vulnerability when the path does not
\* exist ("File not found"), is not a regular file, or has a basename that is
\* no registered parser's filename ("No parser available").
C5_ScanFileEarlyReturns ==
    Called("scan_file") =>
        LET early(msg, path) ==
                /\ ret.outcome = "returned"
                /\ ret.summary.warnings = << Warning(msg, path) >>
                /\ ret.summary.files_scanned = 0
                /\ ret.summary.vulnerabilities = << >>
                /\ ret.parsed = << >>
        IN  /\ ~exists(call.path) => early("File not found", call.path)
            /\ (exists(call.path) /\ ~is_file(call.path)) =>
                  early("Path is not a file", call.path)
            /\ (is_file(call.path)
                  /\ \A i \in DOMAIN _parsers :
                         _parsers[i].filename # name(call.path)) =>
                  early("No parser available for", << name(call.path) >>)

\* scan_file was called on a directory that bears a lock file's name.
C5_Witness ==
    /\ Called("scan_file")
    /\ is_dir(call.path)
    /\ name(call.path) = "package-lock.json"
    /\ Len(ret.summary.warnings) = 1

\* C6: when the selected parser's parse() raises, scan_file still returns:
\* the summary has exactly one warning, files_scanned = 0 and no
\* vulnerability; when parse() returns, files_scanned is 1.
C6_ParseFailureIsAWarning ==
    (Called("scan_file") /\ is_file(call.path)
        /\ _get_parser_for_file(call.path) # NoParser) =>
        LET r == parse(_get_parser_for_file(call.path), call.path) IN
        /\ ret.outcome = "returned"
        /\ ret.parsed = << call.path >>
        /\ r.raised =>
              /\ Len(ret.summary.warnings) = 1
              /\ ret.summary.files_scanned = 0
              /\ ret.summary.vulnerabilities = << >>
        /\ ~r.raised => ret.summary.files_scanned = 1

\* scan_file was called on a lock file whose parse() raises.
C6_Witness ==
    /\ Called("scan_file")
    /\ is_file(call.path)
    /\ EntryAt(call.path).content = "undecodable"
    /\ ret.parsed = << call.path >>
    /\ ret.summary.files_scanned = 0

\* C7: scan_directory scans every discovered lock file, whatever happened to
\* earlier files, and its summary merges the per-file summaries in discovery
\* order: files_scanned is their sum, vulnerabilities and warnings are the
\* concatenations of the per-file lists.
C7_DirectoryMergesEveryFile ==
    (Called("scan_directory") /\ is_dir(call.path)) =>
        LET lock_files == discover_lock_files(call.path).lock_files
            file(i) == scan_file(lock_files[i]).summary
        IN  /\ ret.outcome = "returned"
            /\ ret.parsed = lock_files
            /\ ret.summary.files_scanned =
                  SumSeq([i \in DOMAIN lock_files |-> file(i).files_scanned])
            /\ ret.summary.vulnerabilities =
                  Flatten([i \in DOMAIN lock_files |-> file(i).vulnerabilities])
            /\ ret.summary.warnings =
                  Flatten([i \in DOMAIN lock_files |-> file(i).warnings])

\* A directory scan whose first lock file failed to parse and whose second
\* lock file holds a vulnerable package.
C7_Witness ==
    /\ Called("scan_directory")
    /\ Len(ret.parsed) = 2
    /\ scan_file(ret.parsed[1]).summary.warnings # << >>
    /\ scan_file(ret.parsed[2]).summary.vulnerabilities # << >>
    /\ ret.summary.files_scanned = 1

\* The lock files below dir_path that can be stat-ed and qualify: a regular
\* file, a known lock-file name, no path segment "node_modules".
Qualifies(e) ==
    /\ ~e.denied
    /\ e.type = "file"
    /\ name(e.parts) \in {"package-lock.json", "yarn.lock", "pnpm-lock.yaml"}
    /\ "node_modules" \notin Range(AbsParts(e.parts))

\* C8: discover_lock_files(dir) returns exactly the regular files below dir
\* with a known lock-file name and no path segment "node_modules".
C8_DiscoversExactlyTheLockFiles ==
    Called("discover_lock_files") =>
        LET items == rglob(call.path) IN
        /\ Range(ret.lock_files) =
              { AbsParts(items[i].parts) :
                  i \in { j \in DOMAIN items : Qualifies(items[j]) } }
        /\ \A i, j \in DOMAIN ret.lock_files :
              ret.lock_files[i] = ret.lock_files[j] => i = j

\* C9: a permission error during the traversal does not abort discovery:
\* the qualifying lock files before and after the failing entry are returned.
C9_PermissionErrorDoesNotAbort ==
    Called("discover_lock_files") =>
        LET items == rglob(call.path) IN
        \A i, j \in DOMAIN items :
            (items[i].denied /\ i # j /\ Qualifies(items[j])) =>
                AbsParts(items[j].parts) \in Range(ret.lock_files)

\* C10: a lock file whose content fails structural parsing (invalid JSON,
\* invalid YAML) and a permission error during the traversal each leave at
\* least one entry in ScanSummary.warnings; the malformed file has no result.
C10_FailuresBecomeSummaryWarnings ==
    /\ (Called("scan_file") /\ is_file(call.path)
           /\ name(call.path) \in {"package-lock.json", "pnpm-lock.yaml"}
           /\ EntryAt(call.path).content = "invalid_syntax") =>
          /\ ret.summary.warnings # << >>
          /\ ret.summary.vulnerabilities = << >>
    /\ (Called("scan_directory") /\ is_dir(call.path)
           /\ \E e \in Range(rglob(call.path)) : e.denied) =>
          ret.summary.warnings # << >>

\* ----------------------------------------------------- the database loader
Constructed == pc = "done" /\ call.op = "Scanner"

\* C11: Scanner(db_path) raises when db_path does not exist, when it is no
\* directory, and when it holds neither packages.md nor wiz-packages.csv; it
\* returns when one of the two files at least is there.
C11_ConstructionNeedsOneDatabaseFile ==
    Constructed =>
        /\ doc.db_path = "missing" => ret.outcome = "raised"
        /\ doc.db_path = "file" => ret.outcome = "raised"
        /\ (doc.db_path = "dir" /\ ~doc.md_exists /\ ~doc.csv_exists)
              => ret.outcome = "raised"
        /\ (doc.db_path = "dir" /\ (doc.md_exists \/ doc.csv_exists))
              => ret.outcome = "returned"

C11_Witness ==
    /\ Constructed
    /\ doc.db_path = "dir" /\ doc.md_exists /\ ~doc.csv_exists
    /\ ret.outcome = "returned"
    /\ _vulnerable_set # {}

\* The (name, version) pair of a line "- <entry>" whose last "@" is neither
\* the first nor the last character of <entry>; no pair for any other line.
MdPairs(text) ==
    LET l == strip(text)
        cuts == { c \in (1..Len(l)) \X (1..Len(l)) :
                     /\ l[1] = "-"
                     /\ c[1] >= 2 /\ c[1] + 1 < c[2] /\ c[2] < Len(l)
                     /\ \A j \in 2..c[1] : l[j] \in Whitespace
                     /\ l[c[1] + 1] \notin Whitespace
                     /\ l[c[2]] = "@"
                     /\ \A j \in (c[2] + 1)..Len(l) : l[j] # "@" }
    IN  { << SubSeq(l, c[1] + 1, c[2] - 1), SubSeq(l, c[2] + 1, Len(l)) >> : c \in cuts }

\* C12: every well-formed line of packages.md puts its pair into the
\* pair-set, and a malformed line adds nothing and does not end the parse:
\* without wiz-packages.csv the pair-set is exactly the pairs of the
\* well-formed lines.
C12_PackagesMdLines ==
    (Constructed /\ ret.outcome = "returned" /\ doc.md_exists) =>
        /\ \A i \in DOMAIN doc.md : MdPairs(doc.md[i]) \subseteq _vulnerable_set
        /\ ~doc.csv_exists =>
              _vulnerable_set = UNION { MdPairs(doc.md[i]) : i \in DOMAIN doc.md }

C12_Witness ==
    /\ Constructed /\ ret.outcome = "returned"
    /\ doc.md_exists /\ ~doc.csv_exists /\ Len(doc.md) = 2
    /\ doc.md[1] = << "-", " ", "@", "s", "/", "a" >>
    /\ doc.md[2] = << "-", " ", "@", "s", "/", "a", "@", "1" >>
    /\ _vulnerable_set = { << << "@", "s", "/", "a" >>, << "1" >> >> }

\* An alternative of a version specification, trimmed and without its "=".
Alternative(text) ==
    LET t == strip(text)
    IN  IF t # << >> /\ t[1] = "=" THEN strip(SubSeq(t, 2, Len(t))) ELSE t

\* The entries a row of wiz-packages.csv stands for.
RowEntries(row) ==
    IF ~HasVersion(row) \/ strip(row.Package) = << >> \/ strip(Version(row)) = << >>
    THEN << >>
    ELSE LET alts == SelectSeq([i \in DOMAIN row.alternatives |->
                                   Alternative(row.alternatives[i])],
                               LAMBDA a : a # << >>)
         IN  [i \in DOMAIN alts |-> VulnerablePackage(strip(row.Package), alts[i])]

\* C13: the entries read from wiz-packages.csv are, row after row, one entry
\* for every alternative of the row's version specification that is not
\* empty once trimmed and freed of its "=", under the row's package name; a
\* row with an empty package or version field gives none.
C13_WizCsvRows ==
    (Constructed /\ ret.outcome = "returned" /\ doc.csv_exists) =>
        ret.csv_packages = Flatten([i \in DOMAIN doc.csv |-> RowEntries(doc.csv[i])])

C13_Witness ==
    /\ Constructed /\ ret.outcome = "returned" /\ doc.csv_exists
    /\ doc.csv = << [Package |-> << >>, alternatives |-> << << "1" >> >>],
                    [Package |-> << "a" >>, alternatives |-> TwoVersions] >>
    /\ ret.csv_packages =
          << VulnerablePackage(<< "a" >>, << "1", ".", "0", ".", "0" >>),
             VulnerablePackage(<< "a" >>, << "2", ".", "0", ".", "0" >>) >>

\* The entries of both files, packages.md first.
AllEntries == ret.md_packages \o ret.csv_packages

FirstSeen(n, v) ==
    CHOOSE i \in DOMAIN AllEntries :
        /\ key(AllEntries[i]) = << n, v >>
        /\ \A j \in 1..(i - 1) : key(AllEntries[j]) # << n, v >>

\* C14: the pair-set is the pairs of both files; a name's version list holds
\* exactly the versions paired with the name, each once, in first-seen order
\* (packages.md before wiz-packages.csv), and is never empty.
C14_IndexInvariant ==
    (Constructed /\ ret.outcome = "returned") =>
        /\ _vulnerable_set = { key(AllEntries[i]) : i \in DOMAIN AllEntries }
        /\ DOMAIN _vulnerable_by_name = { p[1] : p \in _vulnerable_set }
        /\ \A n \in DOMAIN _vulnerable_by_name :
              LET versions == _vulnerable_by_name[n] IN
                 /\ versions # << >>
                 /\ Range(versions) = { p[2] : p \in { q \in _vulnerable_set : q[1] = n } }
                 /\ \A i, j \in DOMAIN versions :
                       i < j => /\ versions[i] # versions[j]
                                /\ FirstSeen(n, versions[i]) < FirstSeen(n, versions[j])

C14_Witness ==
    /\ Constructed /\ ret.outcome = "returned"
    /\ doc.md_exists /\ doc.csv_exists
    /\ doc.md = << << "-", " ", "a", "@", "1" >> >>
    /\ Len(ret.csv_packages) = 2
    /\ _vulnerable_by_name = (<< "a" >> :> << << "1" >>, << "2" >> >>)

\* ---------------------------------------------------- the lock-file parsers
ParsedBy(op) == pc = "done" /\ call.op = op

Pairs(pkgs) == [i \in DOMAIN pkgs |-> << pkgs[i].name, pkgs[i].version >>]

\* A (name, version) pair InstalledPackage accepts.
Valid(p) == strip(p[1]) # << >> /\ strip(p[2]) # << >>

\* The package a key of "packages" names: the segment after the last
\* node_modules segment, with the segment after it when it is a scope.
NameOfPath(path) ==
    LET segs == split(path, << "/" >>)
        nms == { i \in DOMAIN segs : segs[i] = << "n", "o", "d", "e", "_", "m", "o", "d", "u", "l", "e", "s" >> }
    IN  IF nms = {} THEN << >>
        ELSE LET k == CHOOSE i \in nms : \A j \in nms : j <= i
             IN  IF k = Len(segs) THEN << >>
                 ELSE IF segs[k + 1] # << >> /\ segs[k + 1][1] = "@" /\ k + 2 <= Len(segs)
                 THEN segs[k + 1] \o << "/" >> \o segs[k + 2]
                 ELSE segs[k + 1]

V2Records(items) ==
    LET named == SelectSeq(items, LAMBDA item :
                    /\ item[2].dict
                    /\ HasVersionField(item[2])
                    /\ Valid(<< NameOfPath(item[1]), item[2].items.version >>))
    IN  [i \in DOMAIN named |-> << NameOfPath(named[i][1]), named[i][2].items.version >>]

IsV2 == Has(doc.data, "lockfileVersion") /\ doc.data.lockfileVersion >= 2

\* C15: with lockfileVersion >= 2 the NPM parser returns, in the order of
\* "packages", one record for every key that has a version and names a
\* package (the segment after the last node_modules, or @scope/name); the
\* root key "" and keys without node_modules give none.
C15_V2RecordsFromPackagesKeys ==
    (ParsedBy("NpmParser.parse") /\ IsV2) =>
        /\ ret.outcome = "returned"
        /\ Pairs(ret.packages) = V2Records(doc.data.packages)

C15_Witness ==
    /\ ParsedBy("NpmParser.parse") /\ IsV2
    /\ doc.data.packages = RootAndTwoPackages
    /\ Pairs(ret.packages) = << << << "l", "o", "d", "a", "s", "h" >>, << "1" >> >>, << << "@", "b", "a", "b", "e", "l", "/", "c", "o", "r", "e" >>, << "1" >> >> >>

\* The records of a "dependencies" map, depth first in key order.
RECURSIVE Walk(_)
Walk(deps) ==
    Flatten([i \in DOMAIN deps |->
        LET n == deps[i][1]
            info == deps[i][2]
        IN  IF ~info.dict THEN << >>
            ELSE (IF HasVersionField(info) /\ Valid(<< n, info.items.version >>)
                  THEN << << n, info.items.version >> >> ELSE << >>)
                 \o (IF Has(info.items, "dependencies")
                     THEN Walk(info.items.dependencies) ELSE << >>)])

\* C16: with lockfileVersion absent or < 2 the NPM parser returns one record
\* for every key, at any depth of the nested "dependencies" maps, that has a
\* version; a key without one gives no record and its nested map is visited
\* all the same.
C16_V1WalksEveryDepth ==
    (ParsedBy("NpmParser.parse") /\ ~IsV2) =>
        /\ ret.outcome = "returned"
        /\ Pairs(ret.packages) = Walk(doc.data.dependencies)

C16_Witness ==
    /\ ParsedBy("NpmParser.parse") /\ ~Has(doc.data, "lockfileVersion")
    /\ Len(doc.data.dependencies) = 1
    /\ doc.data.dependencies[1][2].dict
    /\ ~HasVersionField(doc.data.dependencies[1][2])
    /\ Pairs(ret.packages) = << << << "b" >>, << "1" >> >>, << << "b" >>, << "1" >> >> >>

\* The version of an entry: that of the first version line after its header
\* line, unless another header comes first; << >> when there is none.
EntryVersion(lines, i) ==
    LET marks == { j \in (i + 1)..Len(lines) : lines[j].t # "other" }
    IN  IF marks = {} THEN << >>
        ELSE LET j == CHOOSE j \in marks : \A k \in marks : j <= k
             IN  IF lines[j].t = "version" THEN lines[j].version ELSE << >>

EntryPairs(lines) ==
    UNION { { << n, EntryVersion(lines, i) >> : n \in lines[i].names } :
               i \in { i \in DOMAIN lines : lines[i].t = "header" } }

\* C17: the Yarn parser returns a record for every distinct name of a
\* header's specifier list with the version found after the header, and no
\* (name, version) pair twice.
C17_YarnHeaderNames ==
    ParsedBy("YarnParser.parse") =>
        /\ ret.outcome = "returned"
        /\ Range(Pairs(ret.packages)) = { p \in EntryPairs(doc.lines) : Valid(p) }
        /\ \A i, j \in DOMAIN ret.packages :
              i # j => Pairs(ret.packages)[i] # Pairs(ret.packages)[j]

C17_Witness ==
    /\ ParsedBy("YarnParser.parse")
    /\ Len(doc.lines) = 2
    /\ doc.lines[1].text = << "l", "o", "d", "a", "s", "h", "@", "^", "4", ".", "1", "7", ".", "0", ",", " ", "l", "o", "d", "a", "s", "h", "@", "^", "4", ".", "1", "7", ".", "2", "1", ":" >>
    /\ doc.lines[2].t = "version" /\ doc.lines[2].version = << "4", ".", "1", "7", ".", "2", "1" >>
    /\ Pairs(ret.packages) = << << << "l", "o", "d", "a", "s", "h" >>, << "4", ".", "1", "7", ".", "2", "1" >> >> >>

\* The records of the keys of one mapping of pnpm-lock.yaml.
KeyRecords(items) ==
    LET shaped == SelectSeq(items, LAMBDA item :
                     item.shaped /\ Valid(<< item.name, item.version >>))
    IN  [i \in DOMAIN shaped |-> << shaped[i].name, shaped[i].version >>]

\* C18: a key @scope/name@version(peers), @scope/name/version,
\* name@version(peers) or name/version, with or without a leading "/",
\* gives the record (name, version) with the peers cut off; a key of no such
\* shape or with an empty version gives none.
C18_PnpmKeySplitting ==
    (ParsedBy("PnpmParser.parse") /\ DOMAIN doc.data = {"packages"}) =>
        /\ ret.outcome = "returned"
        /\ Pairs(ret.packages) = KeyRecords(doc.data.packages)

C18_Witness ==
    /\ ParsedBy("PnpmParser.parse") /\ DOMAIN doc.data = {"packages"}
    /\ Len(doc.data.packages) = 2
    /\ doc.data.packages[1].key = << "@", "s", "/", "a", "@", "1", "(", "p", "@", "2", ")" >>
    /\ doc.data.packages[2].key = << "/", "@", "s", "/", "a", "/", "2" >>
    /\ Pairs(ret.packages) = << << << "@", "s", "/", "a" >>, << "1" >> >>, << << "@", "s", "/", "a" >>, << "2" >> >> >>

MapOf(k) == IF Has(doc.data, k) THEN doc.data[k] ELSE << >>

\* C19: the PNPM parser reads the keys of "packages", and those of
\* "snapshots" exactly when "packages" is absent or empty; never both.
C19_SnapshotsOnlyWithoutPackages ==
    ParsedBy("PnpmParser.parse") =>
        Pairs(ret.packages) =
            IF MapOf("packages") # << >> THEN KeyRecords(MapOf("packages"))
            ELSE KeyRecords(MapOf("snapshots"))

C19_Witness ==
    /\ ParsedBy("PnpmParser.parse")
    /\ Has(doc.data, "snapshots") /\ doc.data.snapshots # << >>
    /\ Has(doc.data, "packages") /\ Len(doc.data.packages) = 1
    /\ ~doc.data.packages[1].shaped
    /\ ret.packages = << >>

ParsedAny ==
    ParsedBy("NpmParser.parse") \/ ParsedBy("YarnParser.parse") \/ ParsedBy("PnpmParser.parse")

\* C20: in every parser a record InstalledPackage rejects is left out and
\* nothing else: the parse returns, and its records are the accepted ones
\* among those it built, in their order.
C20_InvalidRecordIsSkipped ==
    ParsedAny =>
        /\ ret.outcome = "returned"
        /\ Pairs(ret.packages) = SelectSeq(ret.constructed, Valid)

C20_Witness ==
    /\ ParsedBy("NpmParser.parse")
    /\ Len(ret.constructed) = 3
    /\ Valid(ret.constructed[1]) /\ ~Valid(ret.constructed[2]) /\ Valid(ret.constructed[3])
    /\ Len(ret.packages) = 2

\* ------------------------------------------------------ registered parsers
\* The regular files of the tree, as resolved paths.
RegularFiles ==
    { AbsParts(tree[i].parts) : i \in { j \in DOMAIN tree : tree[j].type = "file" } }

\* The parsers of this scanner that stand before position i.
Earlier(i) == { _parsers[j] : j \in 1..(i - 1) }

\* The file names position i of _parsers is the first to claim.
ClaimedAt(i, path) ==
    /\ name(path) = _parsers[i].filename
    /\ \A q \in Earlier(i) : q.filename # name(path)

\* Right after register_parser(p): p is last and the lookup maps its name.
C21_Registered ==
    (pc = "idle" /\ call.op = "register_parser" /\ "instance" \notin DOMAIN call)
        => /\ _parsers[Len(_parsers)] = call.parser
           /\ call.parser.filename \in DOMAIN LOCK_FILE_NAMES
           /\ LOCK_FILE_NAMES[call.parser.filename] = call.parser.file_type

\* scan_file hands a regular file to the first parser whose filename equals
\* its basename, and to no parser when no filename equals it.
C21_Selected ==
    (Called("scan_file") /\ call.path \in RegularFiles)
        => /\ \A i \in DOMAIN _parsers :
                 ClaimedAt(i, call.path)
                     => /\ _get_parser_for_file(call.path) = _parsers[i]
                        /\ ret.parsed = << call.path >>
                        /\ \A r \in Range(ret.summary.vulnerabilities) :
                              r.file_type = _parsers[i].file_type
           /\ (\A i \in DOMAIN _parsers : _parsers[i].filename # name(call.path))
                 => /\ ret.parsed = << >>
                    /\ ret.summary.warnings =
                          << Warning("No parser available for", << name(call.path) >>) >>

\* discover_lock_files returns the files named like a parser of the scanner
\* (outside node_modules).
C21_Discovered ==
    Called("discover_lock_files")
        => \A path \in RegularFiles :
              (/\ IsPrefix(call.path, path)
               /\ "node_modules" \notin Range(path)
               /\ \E i \in DOMAIN _parsers : _parsers[i].filename = name(path))
                  => path \in Range(ret.lock_files)

\* C21: after register_parser(p), p is the last parser of the scanner and the
\* filename-to-type lookup maps p.filename to p.file_type; a file whose
\* basename equals p.filename and that no earlier parser claims is returned
\* by discover_lock_files and parsed by p in scan_file; a parser is selected
\* by equality of the basename and its filename, nothing else.
C21_RegisteredParserIsUsed ==
    /\ C21_Registered
    /\ C21_Selected
    /\ C21_Discovered

\* C26: the vulnerability index of a constructed Scanner is read-only: no
\* call of scan, scan_file, scan_directory, match_packages,
\* discover_lock_files or register_parser changes the pair-set or the
\* name-to-versions map.
C26_IndexIsReadOnly ==
    [][ /\ _vulnerable_set' = _vulnerable_set
        /\ _vulnerable_by_name' = _vulnerable_by_name ]_vars

\* A scan found a vulnerable package after a parser was registered: the index
\* built at construction is still the one that is read.
C26_Witness ==
    /\ pc = "done"
    /\ call.op \in {"scan", "scan_file", "scan_directory"}
    /\ Len(_parsers) > Len(BuiltinParsers)
    /\ ret.summary.vulnerabilities # << >>
    /\ _vulnerable_set = load_all(DbFixture, << >>).set

\* C27: Scanner instances are independent: register_parser on another
\* instance changes neither this instance's parsers nor the lock-file names
\* its discover_lock_files uses, so every file this instance discovers has a
\* parser of this instance.
C27_InstancesAreIndependent ==
    /\ (\A i \in DOMAIN _parsers : _parsers[i] \in Range(BuiltinParsers))
          => DOMAIN LOCK_FILE_NAMES = DOMAIN BuiltinLockFileNames
    /\ Called("discover_lock_files")
          => \A path \in Range(ret.lock_files) : _get_parser_for_file(path) # NoParser

\* ------------------------------------------------- summaries and renderings
Updated(op) == pc = "idle" /\ call.op = op

\* C22: after any sequence of add_result, add_warning and
\* increment_files_scanned calls, has_vulnerabilities is false iff
\* vulnerabilities is empty and vulnerabilities_found is its length (no
\* result at first, one more after each add_result); add_warning appends its
\* argument at the end of warnings, repeats included, and leaves the earlier
\* warnings, vulnerabilities and files_scanned as they were.
C22_SummaryInvariants ==
    /\ has_vulnerabilities(scan_summary) <=> scan_summary.vulnerabilities # << >>
    /\ vulnerabilities_found(scan_summary) = Len(scan_summary.vulnerabilities)
    /\ (pc = "idle" /\ call = NoCall) => ~has_vulnerabilities(scan_summary)
    /\ Updated("add_result")
          => /\ has_vulnerabilities(scan_summary)
             /\ vulnerabilities_found(scan_summary)
                   = vulnerabilities_found(ret.before) + 1
    /\ Updated("add_warning")
          => /\ scan_summary.warnings = Append(ret.before.warnings, call.arg)
             /\ scan_summary.vulnerabilities = ret.before.vulnerabilities
             /\ scan_summary.files_scanned = ret.before.files_scanned

\* The same warning was added a second time to a summary that holds a result
\* and a scanned file.
C22_Witness ==
    /\ Updated("add_warning")
    /\ ret.before.warnings = << call.arg >>
    /\ scan_summary.warnings = << call.arg, call.arg >>
    /\ has_vulnerabilities(scan_summary)
    /\ scan_summary.files_scanned = 1

Formatted == Called("JsonOutput.format")

\* C23: decoding the JSON text of a summary gives back files_scanned, as many
\* results as vulnerabilities_found says, every result's (package, version)
\* pair at its position, and the list of warnings.
C23_JsonRoundTrip ==
    Formatted
        => LET data == json_loads(ret.output)
               found == scan_summary.vulnerabilities
           IN  /\ data.files_scanned = scan_summary.files_scanned
               /\ data.vulnerabilities_found = vulnerabilities_found(scan_summary)
               /\ Len(data.results) = data.vulnerabilities_found
               /\ \A i \in DOMAIN found :
                     /\ data.results[i].package = found[i].package_name
                     /\ data.results[i].version = found[i].installed_version
               /\ data.warnings = scan_summary.warnings

\* A summary with the same result twice, another one, and a warning.
C23_Witness ==
    /\ Formatted
    /\ scan_summary.files_scanned = 1
    /\ Len(scan_summary.vulnerabilities) = 2
    /\ scan_summary.vulnerabilities[1] = scan_summary.vulnerabilities[2]
    /\ scan_summary.warnings # << >>
    /\ json_loads(ret.output).results[2].package = "vuln-pkg"

\* C24: ScanSummary has an ordered list version_mismatch_warnings, with
\* has_version_mismatch_warnings and add_version_mismatch_warning, and the
\* JSON text has a "version_mismatch_warnings" array with one object per
\* warning in the same order.
C24_VersionMismatchWarningsAreCarried ==
    /\ {"version_mismatch_warnings", "has_version_mismatch_warnings",
        "add_version_mismatch_warning"} \subseteq ScanSummary_attributes
    /\ Formatted
          => /\ "version_mismatch_warnings" \in DOMAIN json_loads(ret.output)
             /\ Len(json_loads(ret.output).version_mismatch_warnings)
                   = Len(scan_summary.version_mismatch_warnings)

\* ------------------------------------------------------------ exit codes
\* The run ended in one of the errors the exit code 2 stands for.
CliError(args) ==
    \/ ~exists(args.path)
    \/ Scanner__init__(args.db).outcome = "raised"
    \/ scan(args.path).outcome = "raised"

\* C25: main() returns 0 when the scan completes without a vulnerability
\* (warnings or not), 1 when the summary holds a vulnerability, 2 when the
\* target path does not exist, the Scanner cannot be constructed or the scan
\* raises; the same for the console and the json format, and main() always
\* returns one of the three codes.
C25_ExitCodes ==
    Called("main")
        => /\ ret.outcome = "returned"
           /\ ret.code \in {EXIT_SUCCESS, EXIT_VULNERABILITIES, EXIT_ERROR}
           /\ CliError(ret.args) => ret.code = EXIT_ERROR
           /\ (~CliError(ret.args) /\ has_vulnerabilities(scan(ret.args.path).summary))
                 => ret.code = EXIT_VULNERABILITIES
           /\ (~CliError(ret.args) /\ ~has_vulnerabilities(scan(ret.args.path).summary))
                 => ret.code = EXIT_SUCCESS

\* ----------------------------------------------- the version of a yarn entry
\* The version the entry line i is given: that of the first version line
\* among the VersionLookahead lines after it, unless an entry line stands
\* between the two; << >> when there is none.
WindowVersion(lines, i) ==
    LET last == IF i + VersionLookahead < Len(lines)
                THEN i + VersionLookahead ELSE Len(lines)
        versions == { j \in (i + 1)..last : lines[j].t = "version" }
    IN  IF versions = {} THEN << >>
        ELSE LET j == CHOOSE j \in versions : \A k \in versions : j <= k
             IN  IF \E k \in (i + 1)..(j - 1) : lines[k].t = "header"
                 THEN << >>
                 ELSE lines[j].version

WindowPairs(lines) ==
    UNION { { << n, WindowVersion(lines, i) >> : n \in lines[i].names } :
               i \in { i \in DOMAIN lines : lines[i].t = "header" } }

\* C28: an entry line at line i gets the version of the first version line
\* among the lines i+1 .. i+10, and only if no other entry line (not
\* indented, ending with ":") stands before it; when the version line is more
\* than 10 lines away or a later entry line comes first, the entry gives no
\* record: it never gets the version of a later entry.
C28_VersionWithinTenLines ==
    ParsedBy("YarnParser.parse") =>
        /\ ret.outcome = "returned"
        /\ Range(Pairs(ret.packages)) = { p \in WindowPairs(doc.lines) : Valid(p) }

\* The version line is the eleventh line after the entry line, the body is
\* made of section lines: no record; and an entry line whose version line is
\* the tenth gets it.
C28_Witness ==
    /\ ParsedBy("YarnParser.parse")
    /\ Len(doc.lines) = 2 * VersionLookahead + 3
    /\ doc.lines[2].text = << " ", " ", "d", "e", "p", "e", "n", "d", "e", "n", "c", "i", "e", "s", ":" >>
    /\ doc.lines[VersionLookahead + 2].t = "version"
    /\ doc.lines[VersionLookahead + 3].t = "header"
    /\ doc.lines[2 * VersionLookahead + 3].t = "version"
    /\ Pairs(ret.packages) = << << << "b" >>, << "2" >> >> >>

\* ------------------------------------------------------- files_scanned
\* scan_file called parse() on its path and parse() returned.
ParseReturned(path) ==
    /\ is_file(path)
    /\ _get_parser_for_file(path) # NoParser
    /\ ~parse(_get_parser_for_file(path), path).raised

\* C29: a summary of scan_file has files_scanned 0 or 1, and 1 exactly when
\* parse() returned without raising, a malformed file that parses to the
\* empty list included; a summary of scan_directory has files_scanned at most
\* the number of discovered lock files, and at least 1 when it holds a
\* vulnerability.
C29_FilesScannedCounts ==
    /\ Called("scan_file")
          => /\ ret.summary.files_scanned \in {0, 1}
             /\ ret.summary.files_scanned = 1 <=> ParseReturned(call.path)
             /\ ParseReturned(call.path) => ret.parsed = << call.path >>
    /\ (Called("scan_directory") /\ is_dir(call.path))
          => /\ ret.summary.files_scanned
                   <= Len(discover_lock_files(call.path).lock_files)
             /\ vulnerabilities_found(ret.summary) > 0
                   => ret.summary.files_scanned >= 1
    /\ (Called("scan_directory") /\ ~is_dir(call.path))
          => /\ ret.summary.files_scanned = 0
             /\ vulnerabilities_found(ret.summary) = 0

\* scan_file on a package-lock.json that is no JSON document: the parser
\* returned the empty list and the file counts as scanned.
C29_Witness ==
    /\ Called("scan_file")
    /\ is_file(call.path)
    /\ EntryAt(call.path).content = "invalid_syntax"
    /\ name(call.path) = "package-lock.json"
    /\ ret.summary.files_scanned = 1
    /\ ret.summary.vulnerabilities = << >>

\* C30: discover_lock_files tests every segment of a file's full resolved
\* path for "node_modules", those of the scanned directory included: under a
\* directory whose own path has such a segment it returns the empty list and
\* scan_directory reports files_scanned = 0 and no warning, whatever lock
\* files the tree holds.
C30_RootUnderNodeModules ==
    /\ Called("discover_lock_files")
          => /\ \A path \in Range(ret.lock_files) : "node_modules" \notin Range(path)
             /\ "node_modules" \in Range(call.path) => ret.lock_files = << >>
    /\ (Called("scan_directory") /\ is_dir(call.path)
           /\ "node_modules" \in Range(call.path))
          => /\ ret.outcome = "returned"
             /\ ret.parsed = << >>
             /\ ret.summary.files_scanned = 0
             /\ ret.summary.vulnerabilities = << >>
             /\ ret.summary.warnings = << >>

\* scan_directory on node_modules/pkg, which holds a package-lock.json with
\* vulnerable packages and a yarn.lock in a subdirectory.
C30_Witness ==
    /\ Called("scan_directory")
    /\ call.path = << "node_modules", "pkg" >>
    /\ \E i \in DOMAIN tree :
          /\ tree[i].parts = << "package-lock.json" >>
          /\ tree[i].type = "file" /\ tree[i].content = "valid"
    /\ \E i \in DOMAIN tree :
          /\ tree[i].parts = << "src", "yarn.lock" >>
          /\ ~tree[i].denied /\ tree[i].content = "valid"
    /\ ret.summary.files_scanned = 0
    /\ ret.summary.warnings = << >>
====
